---- MODULE Spec2Model ----
(***************************************************************************)
(* Model of the crypto-dot-com-exchange-go client: the signature generator *)
(* (internal/auth), the error classifier (errors, internal/api) and the    *)
(* endpoint operations of the client that use them.                        *)
(*                                                                         *)
(* Strings are sequences of one-character strings, so that concatenation,  *)
(* byte-wise comparison and decimal formatting are computed, not assumed.  *)
(* int64 values are kept inside TLC's integer range by the input sets.     *)
(***************************************************************************)
EXTENDS Integers, Sequences, FiniteSets, TLC

VARIABLES
    inp,      \* the arguments of the calls to come and what the collaborators will do
    last,     \* the most recent GenerateSignature call: request, map order, result
    calls,    \* the GenerateSignature calls made so far, oldest first
    now,      \* what the wall clock reads
    chk,      \* the most recent CheckErrorResponse call: arguments and result
    client,   \* the client (client.go: client struct)
    ret       \* the most recent endpoint operation: what it signed, sent and returned

vars == <<inp, last, calls, now, chk, client, ret>>

(***************************************************************************)
(* Go values                                                               *)
(***************************************************************************)

\* The nil error / nil result.
Nil == [type |-> "nil"]

\* The printable ASCII characters in byte order, from byte 32 (space).
ASCII ==
    <<" ", "!", "QUOTE", "#", "$", "%", "&", "APOSTROPHE", "(", ")", "*", "+", ",", "-", ".", "/",
      "0", "1", "2", "3", "4", "5", "6", "7", "8", "9", ":", ";", "<", "=", ">", "?",
      "@", "A", "B", "C", "D", "E", "F", "G", "H", "I", "J", "K", "L", "M", "N", "O",
      "P", "Q", "R", "S", "T", "U", "V", "W", "X", "Y", "Z", "[", "BACKSLASH", "]", "^", "_",
      "BACKTICK", "a", "b", "c", "d", "e", "f", "g", "h", "i", "j", "k", "l", "m", "n", "o",
      "p", "q", "r", "s", "t", "u", "v", "w", "x", "y", "z", "{", "|", "}", "~">>

\* The byte value of a character.
Byte(c) == 31 + (CHOOSE i \in 1..Len(ASCII) : ASCII[i] = c)

\* Go's a < b on strings: byte-wise lexicographic order.
RECURSIVE StrLess(_, _)
StrLess(a, b) ==
    IF b = << >> THEN FALSE
    ELSE IF a = << >> THEN TRUE
    ELSE IF Byte(Head(a)) # Byte(Head(b)) THEN Byte(Head(a)) < Byte(Head(b))
    ELSE StrLess(Tail(a), Tail(b))

Digit(d) == ASCII[17 + d]

\* The decimal digits of n >= 0, most significant first.
RECURSIVE Digits(_)
Digits(n) == IF n < 10 THEN <<Digit(n)>> ELSE Digits(n \div 10) \o <<Digit(n % 10)>>

\* fmt's %d of an integer.
FormatInt(n) == IF n < 0 THEN <<"-">> \o Digits(-n) ELSE Digits(n)

\* Typed values an interface{} holds in a params map.
StringVal(s) == [t |-> "string", s |-> s]
IntVal(n) == [t |-> "int", n |-> n]
BoolVal(b) == [t |-> "bool", b |-> b]
\* A float64 by its shortest decimal: digits d1 d2 .. dn (d1 # 0, dn # 0) and the
\* position dp of the decimal point, value 0.d1..dn * 10^dp; zero has no digits.
FloatVal(neg, digits, dp) == [t |-> "float64", neg |-> neg, d |-> digits, dp |-> dp]

DigitString(ds) == [i \in 1..Len(ds) |-> Digit(ds[i])]

\* strconv %e of a shortest decimal: d.ddde+XX with at least two exponent digits.
FormatFloatE(d, dp) ==
    LET exp == IF Len(d) = 0 THEN 0 ELSE dp - 1
        mag == IF exp < 0 THEN -exp ELSE exp
    IN  (IF Len(d) = 0 THEN <<"0">> ELSE <<Digit(d[1])>>)
        \o (IF Len(d) > 1 THEN <<".">> \o DigitString(Tail(d)) ELSE << >>)
        \o <<"e", IF exp < 0 THEN "-" ELSE "+">>
        \o (IF mag < 10 THEN <<"0">> ELSE << >>) \o Digits(mag)

\* strconv %f of a shortest decimal with max(nd - dp, 0) fraction digits.
FormatFloatF(d, dp) ==
    LET nd == Len(d)
        prec == IF nd - dp > 0 THEN nd - dp ELSE 0
        int == IF dp > 0
               THEN [i \in 1..dp |-> IF i <= nd THEN Digit(d[i]) ELSE "0"]
               ELSE <<"0">>
        frac == [i \in 1..prec |->
                    IF dp + i >= 1 /\ dp + i <= nd THEN Digit(d[dp + i]) ELSE "0"]
    IN  int \o (IF prec > 0 THEN <<".">> \o frac ELSE << >>)

\* fmt's %v of a float64: strconv 'g' with the shortest precision; %e is used when
\* the exponent is below -4 or at least 6.
FormatFloat(v) ==
    LET exp == v.dp - 1
    IN  (IF v.neg THEN <<"-">> ELSE << >>)
        \o (IF exp < -4 \/ exp >= 6 THEN FormatFloatE(v.d, v.dp) ELSE FormatFloatF(v.d, v.dp))

\* fmt's %v: the default string form of a value.
FormatValue(v) ==
    CASE v.t = "string" -> v.s
      [] v.t = "int" -> FormatInt(v.n)
      [] v.t = "bool" -> IF v.b THEN <<"t", "r", "u", "e">> ELSE <<"f", "a", "l", "s", "e">>
      [] v.t = "float64" -> FormatFloat(v)

\* One verb of fmt applied to its argument; a verb that does not fit the argument's
\* type prints fmt's %!verb(type=value) notice.
FormatVerb(verb, v) ==
    IF \/ verb = "%v"
       \/ verb = "%s" /\ v.t = "string"
       \/ verb = "%d" /\ v.t = "int"
    THEN FormatValue(v)
    ELSE <<"%", "!">> \o FormatValue(v)

\* fmt.Sprintf for a format made of verbs only: each verb formats its own argument.
RECURSIVE Sprintf(_, _)
Sprintf(verbs, args) ==
    IF verbs = << >> THEN << >>
    ELSE FormatVerb(Head(verbs), Head(args)) \o Sprintf(Tail(verbs), Tail(args))

(***************************************************************************)
(* internal/auth: the signature generator                                  *)
(***************************************************************************)

\* A Go map is a function from its keys; the nil map and the empty map both have
\* no keys (len 0, nothing to range over).
EmptyMap == << >>

\* The orders in which a range over the map can yield its keys: every permutation.
IterationOrders(params) ==
    {o \in [1..Cardinality(DOMAIN params) -> DOMAIN params] :
        \A i, j \in DOMAIN o : i # j => o[i] # o[j]}

\* The less function handed to sort.Slice: p[i].key < p[j].key.
less(a, b) == StrLess(a.key, b.key)

\* Insertion of e into a slice ordered by less.
RECURSIVE SortInsert(_, _)
SortInsert(p, e) ==
    IF p = << >> THEN <<e>>
    ELSE IF less(e, Head(p)) THEN <<e>> \o p
    ELSE <<Head(p)>> \o SortInsert(Tail(p), e)

\* sort.Slice(p, less): the slice in ascending order of less.
RECURSIVE SortSlice(_)
SortSlice(p) ==
    IF p = << >> THEN << >>
    ELSE SortInsert(SortSlice(SubSeq(p, 1, Len(p) - 1)), p[Len(p)])

\* A plausible slip: the params are appended in the order the range yields them and
\* never sorted.
sortParams_Unsorted(params, order) ==
    [i \in 1..Len(order) |-> [key |-> order[i], val |-> params[order[i]]]]

\* Generator.sortParams: the map's pairs, appended in the order the range yields
\* them (order), then sorted by key.
sortParams(params, order) ==
    SortSlice([i \in 1..Len(order) |-> [key |-> order[i], val |-> params[order[i]]]])

\* The loop of buildParamString over the sorted pairs.
RECURSIVE AppendParams(_, _)
AppendParams(paramsString, ps) ==
    IF ps = << >> THEN paramsString
    ELSE AppendParams(
            Sprintf(<<"%s", "%s", "%v">>,
                    <<StringVal(paramsString), StringVal(Head(ps).key), Head(ps).val>>),
            Tail(ps))

\* The zero value of its type: 0, "", false.
IsZeroValue(v) ==
    CASE v.t = "string" -> v.s = << >>
      [] v.t = "int" -> v.n = 0
      [] v.t = "bool" -> ~v.b
      [] v.t = "float64" -> v.d = << >>

\* A plausible slip: pairs holding a zero value are left out of the string.
buildParamString_SkipZero(params, order) ==
    IF Cardinality(DOMAIN params) = 0 THEN << >>
    ELSE AppendParams(<< >>,
            SelectSeq(sortParams(params, order), LAMBDA p : ~IsZeroValue(p.val)))

\* Generator.buildParamString.
buildParamString(params, order) ==
    IF Cardinality(DOMAIN params) = 0 THEN << >>
    ELSE AppendParams(<< >>, sortParams(params, order))

\* hmac.New(sha256.New, key) written with msg, then Sum(nil): the MAC as a term.
\* The hash is taken as ideal: equal MACs have equal keys and equal messages.
HMACSHA256(key, msg) == [mac |-> "HMAC-SHA256", key |-> key, msg |-> msg]

\* hex.EncodeToString: the lowercase hexadecimal digits of the bytes.
HexEncodeToString(bytes) == [enc |-> "hex-lowercase", bytes |-> bytes]

\* A plausible slip: the fields of the payload kept apart by a separator.
GenerateSignature_Separated(req, order) ==
    LET paramStr == buildParamString(req.Params, order)
        signaturePayload ==
            req.Method \o <<"|">> \o FormatInt(req.ID) \o <<"|">> \o req.APIKey \o <<"|">>
                \o paramStr \o <<"|">> \o FormatInt(req.Timestamp)
    IN  [paramStr |-> paramStr,
         payload |-> signaturePayload,
         sig |-> HexEncodeToString(HMACSHA256(req.SecretKey, signaturePayload)),
         err |-> Nil]

\* A plausible slip: the api key and the id change places in the payload.
GenerateSignature_Swapped(req, order) ==
    LET paramStr == buildParamString(req.Params, order)
        signaturePayload ==
            Sprintf(<<"%s", "%s", "%d", "%s", "%d">>,
                    <<StringVal(req.Method), StringVal(req.APIKey), IntVal(req.ID),
                      StringVal(paramStr), IntVal(req.Timestamp)>>)
    IN  [paramStr |-> paramStr,
         payload |-> signaturePayload,
         sig |-> HexEncodeToString(HMACSHA256(req.SecretKey, signaturePayload)),
         err |-> Nil]

\* A plausible slip: the generator stamps the payload with the clock's reading
\* instead of the request's timestamp.
GenerateSignature_ReadsClock(req, order) ==
    LET paramStr == buildParamString(req.Params, order)
        signaturePayload ==
            Sprintf(<<"%s", "%d", "%s", "%s", "%d">>,
                    <<StringVal(req.Method), IntVal(req.ID), StringVal(req.APIKey),
                      StringVal(paramStr), IntVal(now)>>)
    IN  [paramStr |-> paramStr,
         payload |-> signaturePayload,
         sig |-> HexEncodeToString(HMACSHA256(req.SecretKey, signaturePayload)),
         err |-> Nil]

\* Generator.GenerateSignature; order is the order in which the range over
\* req.Params yields its keys. Writing to the hash never fails, so err is nil.
\* The locals paramStr and signaturePayload are returned for inspection.
GenerateSignature(req, order) ==
    LET paramStr == buildParamString(req.Params, order)
        signaturePayload ==
            Sprintf(<<"%s", "%d", "%s", "%s", "%d">>,
                    <<StringVal(req.Method), IntVal(req.ID), StringVal(req.APIKey),
                      StringVal(paramStr), IntVal(req.Timestamp)>>)
    IN  [paramStr |-> paramStr,
         payload |-> signaturePayload,
         sig |-> HexEncodeToString(HMACSHA256(req.SecretKey, signaturePayload)),
         err |-> Nil]

(***************************************************************************)
(* errors: the sentinels, ResponseError and the classification of a code   *)
(***************************************************************************)

\* A package-level sentinel made by errors.New: a pointer, equal only to itself.
Sentinel(name) == [type |-> "*errorString", ptr |-> name]

\* An error made by errors.New or fmt.Errorf (without %w) during a call: a pointer
\* to a fresh allocation, holding its message.
NewError(msg) == [type |-> "*errorString", ptr |-> "heap", s |-> msg]

\* fmt.Errorf("<context>: %w", err): a fresh *wrapError whose Unwrap is err.
WrapError(context, err) == [type |-> "*wrapError", ptr |-> "heap", context |-> context, err |-> err]

ErrUnexpectedError == Sentinel("ErrUnexpectedError")
ErrSystemError == Sentinel("ErrSystemError")
ErrUnauthorized == Sentinel("ErrUnauthorized")
ErrIllegalIP == Sentinel("ErrIllegalIP")
ErrBadRequest == Sentinel("ErrBadRequest")
ErrUserTierInvalid == Sentinel("ErrUserTierInvalid")
ErrTooManyRequests == Sentinel("ErrTooManyRequests")
ErrInvalidNonce == Sentinel("ErrInvalidNonce")
ErrMethodNotFound == Sentinel("ErrMethodNotFound")
ErrInvalidDateRange == Sentinel("ErrInvalidDateRange")
ErrDuplicateRecord == Sentinel("ErrDuplicateRecord")
ErrNegativeBalance == Sentinel("ErrNegativeBalance")
ErrSymbolNotFound == Sentinel("ErrSymbolNotFound")
ErrSideNotSupported == Sentinel("ErrSideNotSupported")
ErrOrderTypeNotSupported == Sentinel("ErrOrderTypeNotSupported")
ErrMinPriceViolated == Sentinel("ErrMinPriceViolated")
ErrMaxPriceViolated == Sentinel("ErrMaxPriceViolated")
ErrMinQuantityViolated == Sentinel("ErrMinQuantityViolated")
ErrMaxQuantityViolated == Sentinel("ErrMaxQuantityViolated")
ErrMissingArgument == Sentinel("ErrMissingArgument")
ErrInvalidPricePrecision == Sentinel("ErrInvalidPricePrecision")
ErrInvalidQuantityPrecision == Sentinel("ErrInvalidQuantityPrecision")
ErrMinNotionalViolated == Sentinel("ErrMinNotionalViolated")
ErrMaxNotionalViolated == Sentinel("ErrMaxNotionalViolated")
ErrMinAmountViolated == Sentinel("ErrMinAmountViolated")
ErrMaxAmountViolated == Sentinel("ErrMaxAmountViolated")
ErrAmountPrecisionOverflow == Sentinel("ErrAmountPrecisionOverflow")
ErrMGInvalidAccountStatus == Sentinel("ErrMGInvalidAccountStatus")
ErrMGTransferActiveLoan == Sentinel("ErrMGTransferActiveLoan")
ErrMGInvalidLoanCurrency == Sentinel("ErrMGInvalidLoanCurrency")
ErrMGInvalidRepayAmount == Sentinel("ErrMGInvalidRepayAmount")
ErrMGNoActiveLoan == Sentinel("ErrMGNoActiveLoan")
ErrMGBlockedBorrow == Sentinel("ErrMGBlockedBorrow")
ErrMGBlockedNewOrder == Sentinel("ErrMGBlockedNewOrder")
ErrMGCreditLineNotMaintained == Sentinel("ErrMGCreditLineNotMaintained")

\* The sentinels of the taxonomy: every sentinel but the catch-all.
TaxonomySentinels ==
    {ErrSystemError, ErrUnauthorized, ErrIllegalIP, ErrBadRequest,
     ErrUserTierInvalid, ErrTooManyRequests, ErrInvalidNonce, ErrMethodNotFound,
     ErrInvalidDateRange, ErrDuplicateRecord, ErrNegativeBalance, ErrSymbolNotFound,
     ErrSideNotSupported, ErrOrderTypeNotSupported, ErrMinPriceViolated, ErrMaxPriceViolated,
     ErrMinQuantityViolated, ErrMaxQuantityViolated, ErrMissingArgument, ErrInvalidPricePrecision,
     ErrInvalidQuantityPrecision, ErrMinNotionalViolated, ErrMaxNotionalViolated, ErrMinAmountViolated,
     ErrMaxAmountViolated, ErrAmountPrecisionOverflow, ErrMGInvalidAccountStatus, ErrMGTransferActiveLoan,
     ErrMGInvalidLoanCurrency, ErrMGInvalidRepayAmount, ErrMGNoActiveLoan, ErrMGBlockedBorrow,
     ErrMGBlockedNewOrder, ErrMGCreditLineNotMaintained}

\* The switch of newResponseError: the sentinel of a non-zero code.
SentinelOf(code) ==
    CASE code \in {10001, 100001} -> ErrSystemError
      [] code = 10002 -> ErrUnauthorized
      [] code = 10003 -> ErrIllegalIP
      [] code = 10004 -> ErrBadRequest
      [] code = 10005 -> ErrUserTierInvalid
      [] code = 10006 -> ErrTooManyRequests
      [] code = 10007 -> ErrInvalidNonce
      [] code = 10008 -> ErrMethodNotFound
      [] code = 10009 -> ErrInvalidDateRange
      [] code = 20001 -> ErrDuplicateRecord
      [] code = 20002 -> ErrNegativeBalance
      [] code = 30003 -> ErrSymbolNotFound
      [] code = 30004 -> ErrSideNotSupported
      [] code = 30005 -> ErrOrderTypeNotSupported
      [] code = 30006 -> ErrMinPriceViolated
      [] code = 30007 -> ErrMaxPriceViolated
      [] code = 30008 -> ErrMinQuantityViolated
      [] code = 30009 -> ErrMaxQuantityViolated
      [] code = 30010 -> ErrMissingArgument
      [] code = 30013 -> ErrInvalidPricePrecision
      [] code = 30014 -> ErrInvalidQuantityPrecision
      [] code = 30016 -> ErrMinNotionalViolated
      [] code = 30017 -> ErrMaxNotionalViolated
      [] code = 30023 -> ErrMinAmountViolated
      [] code = 30024 -> ErrMaxAmountViolated
      [] code = 30025 -> ErrAmountPrecisionOverflow
      [] code = 40001 -> ErrMGInvalidAccountStatus
      [] code = 40002 -> ErrMGTransferActiveLoan
      [] code = 40003 -> ErrMGInvalidLoanCurrency
      [] code = 40004 -> ErrMGInvalidRepayAmount
      [] code = 40005 -> ErrMGNoActiveLoan
      [] code = 40006 -> ErrMGBlockedBorrow
      [] code = 40007 -> ErrMGBlockedNewOrder
      [] code = 50001 -> ErrMGCreditLineNotMaintained
      [] OTHER -> ErrUnexpectedError

\* A plausible slip: code 0 falls through to the default case.
newResponseError_ZeroIsError(code) ==
    [type |-> "ResponseError", Code |-> code, Err |-> SentinelOf(code)]

\* A plausible slip: the sentinels of 30006 and 30007 change places.
newResponseError_MinMaxSwapped(code) ==
    IF code = 0 THEN Nil
    ELSE [type |-> "ResponseError", Code |-> code,
          Err |-> CASE code = 30006 -> ErrMaxPriceViolated
                    [] code = 30007 -> ErrMinPriceViolated
                    [] OTHER -> SentinelOf(code)]

\* A plausible slip: the default case returns no error.
newResponseError_DefaultNil(code) ==
    IF code = 0 \/ SentinelOf(code) = ErrUnexpectedError THEN Nil
    ELSE [type |-> "ResponseError", Code |-> code, Err |-> SentinelOf(code)]

\* newResponseError: nil for code 0, otherwise a ResponseError carrying the code
\* and its sentinel.
newResponseError(code) ==
    IF code = 0 THEN Nil
    ELSE [type |-> "ResponseError", Code |-> code, Err |-> SentinelOf(code)]

\* errors.NewResponseError: newResponseError with the HTTP status recorded in the
\* ResponseError.
NewResponseError(httpStatusCode, code) ==
    LET e == newResponseError(code)
    IN  IF e = Nil THEN Nil
        ELSE [type |-> "ResponseError", Code |-> e.Code, HTTPStatusCode |-> httpStatusCode,
              Err |-> e.Err]

\* ResponseError.Unwrap, and the Unwrap of fmt's *wrapError; other errors have none.
Unwrap(err) ==
    CASE err.type = "ResponseError" -> err.Err
      [] err.type = "*wrapError" -> err.err
      [] OTHER -> Nil

\* Go's == on two error values: the same dynamic type and, for pointers, the same
\* allocation (a pointer made during a call equals no pointer made elsewhere), for
\* a ResponseError struct, equal fields.
RECURSIVE GoEqual(_, _)
GoEqual(a, b) ==
    /\ a.type = b.type
    /\ CASE a.type = "nil" -> TRUE
         [] a.type = "ResponseError" ->
                /\ a.Code = b.Code
                /\ a.HTTPStatusCode = b.HTTPStatusCode
                /\ GoEqual(a.Err, b.Err)
         [] a.type = "InvalidParameterError" ->
                a.Parameter = b.Parameter /\ a.Reason = b.Reason
         [] OTHER -> a.ptr = b.ptr /\ a.ptr # "heap"

\* errors.Is: err or an error of its Unwrap chain equals target.
RECURSIVE Is(_, _)
Is(err, target) ==
    IF err = Nil THEN target = Nil
    ELSE GoEqual(err, target) \/ (Unwrap(err) # Nil /\ Is(Unwrap(err), target))

\* errors.As with a ResponseError target: the first ResponseError of the chain.
RECURSIVE AsResponseError(_)
AsResponseError(err) ==
    IF err = Nil THEN Nil
    ELSE IF err.type = "ResponseError" THEN err
    ELSE AsResponseError(Unwrap(err))

(***************************************************************************)
(* internal/api: Requester.CheckErrorResponse                              *)
(***************************************************************************)

IsDigit(c) == c \in {"0", "1", "2", "3", "4", "5", "6", "7", "8", "9"}

RECURSIVE StripZeros(_)
StripZeros(ds) == IF ds # << >> /\ Head(ds) = "0" THEN StripZeros(Tail(ds)) ELSE ds

\* a <= b for two strings of digits without leading zeros.
DigitsLeq(a, b) == Len(a) < Len(b) \/ (Len(a) = Len(b) /\ ~StrLess(b, a))

\* The value of a string of digits.
RECURSIVE DigitsValue(_)
DigitsValue(ds) ==
    IF ds = << >> THEN 0
    ELSE 10 * DigitsValue(SubSeq(ds, 1, Len(ds) - 1)) + (Byte(ds[Len(ds)]) - Byte("0"))

\* 1<<63 - 1 and 1<<63 in decimal: the largest magnitudes of an int64.
MaxInt64Digits == <<"9", "2", "2", "3", "3", "7", "2", "0", "3", "6", "8", "5", "4", "7", "7", "5", "8", "0", "7">>
MinInt64Digits == <<"9", "2", "2", "3", "3", "7", "2", "0", "3", "6", "8", "5", "4", "7", "7", "5", "8", "0", "8">>

\* json.Number.Int64, that is strconv.ParseInt(s, 10, 64): an optional sign, then
\* one or more decimal digits, within the range of an int64.
ParseInt(s) ==
    LET neg == s # << >> /\ Head(s) = "-"
        body == IF s # << >> /\ Head(s) \in {"+", "-"} THEN Tail(s) ELSE s
        mag == StripZeros(body)
    IN  IF s = << >> \/ body = << >> \/ \E i \in DOMAIN body : ~IsDigit(body[i])
        THEN [ok |-> FALSE, n |-> 0, err |-> "ErrSyntax"]
        ELSE IF ~DigitsLeq(mag, IF neg THEN MinInt64Digits ELSE MaxInt64Digits)
        THEN [ok |-> FALSE, n |-> 0, err |-> "ErrRange"]
        ELSE [ok |-> TRUE, n |-> IF neg THEN -DigitsValue(mag) ELSE DigitsValue(mag),
              err |-> "nil"]

msgInvalidResponseCode == <<"i", "n", "v", "a", "l", "i", "d", " ", "r", "e", "s", "p", "o", "n", "s", "e", " ", "c", "o", "d", "e", ":", " ">>

\* A plausible slip: the status is tested against 300 (only 1xx and 2xx succeed).
CheckErrorResponse_From300(statusCode, responseCode) ==
    IF statusCode >= 300
    THEN LET code == ParseInt(responseCode)
         IN  IF ~code.ok
             THEN [type |-> "ResponseError", Code |-> 0, HTTPStatusCode |-> statusCode,
                   Err |-> NewError(Sprintf(<<"%s", "%v">>,
                            <<StringVal(msgInvalidResponseCode), StringVal(responseCode)>>))]
             ELSE NewResponseError(statusCode, code.n)
    ELSE Nil

\* A plausible slip: a code that does not parse is classified as code 0.
CheckErrorResponse_ParseIgnored(statusCode, responseCode) ==
    IF statusCode >= 400
    THEN NewResponseError(statusCode, ParseInt(responseCode).n)
    ELSE Nil

\* Requester.CheckErrorResponse. The ResponseError of the parse failure leaves Code
\* at its zero value.
CheckErrorResponse(statusCode, responseCode) ==
    IF statusCode >= 400
    THEN LET code == ParseInt(responseCode)
         IN  IF ~code.ok
             THEN [type |-> "ResponseError", Code |-> 0, HTTPStatusCode |-> statusCode,
                   Err |-> NewError(Sprintf(<<"%s", "%v">>,
                            <<StringVal(msgInvalidResponseCode), StringVal(responseCode)>>))]
             ELSE NewResponseError(statusCode, code.n)
    ELSE Nil


(***************************************************************************)
(* Inputs of the signature generator                                       *)
(***************************************************************************)

methodGetAccountSummary == <<"p", "r", "i", "v", "a", "t", "e", "/", "g", "e", "t", "-", "a", "c", "c", "o", "u", "n", "t", "-", "s", "u", "m", "m", "a", "r", "y">>
methodCreateOrder == <<"p", "r", "i", "v", "a", "t", "e", "/", "c", "r", "e", "a", "t", "e", "-", "o", "r", "d", "e", "r">>

keyCurrency == <<"c", "u", "r", "r", "e", "n", "c", "y">>
keyInstrumentName == <<"i", "n", "s", "t", "r", "u", "m", "e", "n", "t", "_", "n", "a", "m", "e">>
keyPageSize == <<"p", "a", "g", "e", "_", "s", "i", "z", "e">>
keyPage == <<"p", "a", "g", "e">>
keyPrice == <<"p", "r", "i", "c", "e">>
keyNotional == <<"n", "o", "t", "i", "o", "n", "a", "l">>
keyX == <<"x">>

Methods == {methodGetAccountSummary, methodCreateOrder}
IDs == {0, 7, 1234, -5}
APIKeys == {<<"k">>, <<"3", "k">>}
SecretKeys == {<<"s">>, <<"t">>}
Timestamps == {0, 12, 1700000000}

\* The zero values of the scalar types a params map holds.
ZeroValues == {IntVal(0), StringVal(<< >>), BoolVal(FALSE), FloatVal(FALSE, << >>, 0)}

ParamMaps ==
    {EmptyMap,
     keyCurrency :> StringVal(<<"C", "R", "O">>),
     keyCurrency :> StringVal(<<"C", "R", "O">>) @@ keyX :> IntVal(0),
     keyInstrumentName :> StringVal(<<"B", "T", "C", "_", "U", "S", "D", "T">>)
        @@ keyPageSize :> IntVal(20) @@ keyPage :> IntVal(0),
     <<"a">> :> StringVal(<<"b", "1">>),
     <<"a", "b">> :> StringVal(<<"1">>),
     <<"a">> :> IntVal(2) @@ <<"B">> :> IntVal(-1) @@ <<"_">> :> BoolVal(TRUE),
     keyPrice :> FloatVal(FALSE, <<1, 5>>, 1) @@ keyNotional :> FloatVal(FALSE, <<1>>, 7),
     keyPrice :> FloatVal(TRUE, <<2, 5>>, -4) @@ keyNotional :> FloatVal(FALSE, <<1, 2, 5>>, 6)}
    \cup {keyX :> z : z \in ZeroValues}

SignatureRequests ==
    [Method : Methods, ID : IDs, APIKey : APIKeys, SecretKey : SecretKeys,
     Timestamp : Timestamps, Params : ParamMaps]

\* No call made yet.
NoCall == [made |-> FALSE]

(***************************************************************************)
(* client.go: the client, New, UpdateConfig and the options                *)
(***************************************************************************)

uatSandboxBaseURL == "https://uat-api.3ona.co/v2/"
productionBaseURL == "https://api.crypto.com/v2/"

InvalidParameterError(parameter, reason) ==
    [type |-> "InvalidParameterError", Parameter |-> parameter, Reason |-> reason]

\* The options a caller can pass. An *http.Client is "nil" or names a client; a
\* signature generator is "nil", the real auth.Generator, one that fails or one
\* that returns a fixed string; an id generator and a clock are "nil" or name a
\* substitute.
WithProductionEnvironment == [opt |-> "WithProductionEnvironment"]
WithUATEnvironment == [opt |-> "WithUATEnvironment"]
WithHTTPClient(httpClient) == [opt |-> "WithHTTPClient", arg |-> httpClient]
WithSignatureGenerator(g) == [opt |-> "WithSignatureGenerator", arg |-> g]
WithIDGenerator(g) == [opt |-> "WithIDGenerator", arg |-> g]
WithClock(clock) == [opt |-> "WithClock", arg |-> clock]
WithBaseURL(url) == [opt |-> "WithBaseURL", arg |-> url]

\* One ClientOption applied to the client c: the client afterwards and the error.
ApplyOption(c, o) ==
    CASE o.opt = "WithProductionEnvironment" ->
            [c |-> [c EXCEPT !.requester.BaseURL = productionBaseURL], err |-> Nil]
      [] o.opt = "WithUATEnvironment" ->
            [c |-> [c EXCEPT !.requester.BaseURL = uatSandboxBaseURL], err |-> Nil]
      [] o.opt = "WithHTTPClient" ->
            IF o.arg = "nil"
            THEN [c |-> c, err |-> InvalidParameterError("httpClient", "cannot be empty")]
            ELSE [c |-> [c EXCEPT !.requester.Client = o.arg], err |-> Nil]
      [] o.opt = "WithSignatureGenerator" ->
            IF o.arg = "nil"
            THEN [c |-> c, err |-> InvalidParameterError("signatureGenerator", "cannot be empty")]
            ELSE [c |-> [c EXCEPT !.signatureGenerator = o.arg], err |-> Nil]
      [] o.opt = "WithIDGenerator" ->
            IF o.arg = "nil"
            THEN [c |-> c, err |-> InvalidParameterError("idGenerator", "cannot be empty")]
            ELSE [c |-> [c EXCEPT !.idGenerator = o.arg], err |-> Nil]
      [] o.opt = "WithClock" ->
            IF o.arg = "nil"
            THEN [c |-> c, err |-> InvalidParameterError("clock", "cannot be empty")]
            ELSE [c |-> [c EXCEPT !.clock = o.arg], err |-> Nil]
      [] o.opt = "WithBaseURL" ->
            IF o.arg = ""
            THEN [c |-> c, err |-> InvalidParameterError("url", "cannot be empty")]
            ELSE [c |-> [c EXCEPT !.requester.BaseURL = o.arg], err |-> Nil]

\* The loop of UpdateConfig over opts: it returns at the first option that fails.
RECURSIVE ApplyOptions(_, _)
ApplyOptions(c, opts) ==
    IF opts = << >> THEN [c |-> c, err |-> Nil]
    ELSE LET r == ApplyOption(c, Head(opts))
         IN  IF r.err # Nil THEN r ELSE ApplyOptions(r.c, Tail(opts))

\* A plausible slip: the two cases of the switch in the other order.
UpdateConfig_SecretKeyFirst(c, apiKey, secretKey, opts) ==
    IF secretKey = << >>
    THEN [c |-> c, err |-> InvalidParameterError("secretKey", "cannot be empty")]
    ELSE IF apiKey = << >>
    THEN [c |-> c, err |-> InvalidParameterError("apiKey", "cannot be empty")]
    ELSE ApplyOptions([c EXCEPT !.apiKey = apiKey, !.secretKey = secretKey], opts)

\* A plausible slip: the keys stored before they are checked.
UpdateConfig_AssignsFirst(c, apiKey, secretKey, opts) ==
    LET assigned == [c EXCEPT !.apiKey = apiKey, !.secretKey = secretKey]
    IN  IF apiKey = << >>
        THEN [c |-> assigned, err |-> InvalidParameterError("apiKey", "cannot be empty")]
        ELSE IF secretKey = << >>
        THEN [c |-> assigned, err |-> InvalidParameterError("secretKey", "cannot be empty")]
        ELSE ApplyOptions(assigned, opts)

\* A plausible slip: all or nothing, the client as it was when an option fails.
UpdateConfig_Atomic(c, apiKey, secretKey, opts) ==
    IF apiKey = << >>
    THEN [c |-> c, err |-> InvalidParameterError("apiKey", "cannot be empty")]
    ELSE IF secretKey = << >>
    THEN [c |-> c, err |-> InvalidParameterError("secretKey", "cannot be empty")]
    ELSE LET r == ApplyOptions([c EXCEPT !.apiKey = apiKey, !.secretKey = secretKey], opts)
         IN  IF r.err # Nil THEN [c |-> c, err |-> r.err] ELSE r

\* A plausible slip: the base URL set back to production before the options, as
\* the earlier UpdateConfig did.
UpdateConfig_ResetsBaseURL(c, apiKey, secretKey, opts) ==
    IF apiKey = << >>
    THEN [c |-> c, err |-> InvalidParameterError("apiKey", "cannot be empty")]
    ELSE IF secretKey = << >>
    THEN [c |-> c, err |-> InvalidParameterError("secretKey", "cannot be empty")]
    ELSE ApplyOptions([c EXCEPT !.apiKey = apiKey, !.secretKey = secretKey,
                                !.requester.BaseURL = productionBaseURL], opts)

\* client.UpdateConfig: the client afterwards and the error returned.
UpdateConfig(c, apiKey, secretKey, opts) ==
    IF apiKey = << >>
    THEN [c |-> c, err |-> InvalidParameterError("apiKey", "cannot be empty")]
    ELSE IF secretKey = << >>
    THEN [c |-> c, err |-> InvalidParameterError("secretKey", "cannot be empty")]
    ELSE ApplyOptions([c EXCEPT !.apiKey = apiKey, !.secretKey = secretKey], opts)

\* A plausible slip: the sandbox as the default environment.
New_DefaultsToUAT(apiKey, secretKey, opts) ==
    LET c == [apiKey |-> << >>,
              secretKey |-> << >>,
              clock |-> "clockwork.RealClock",
              idGenerator |-> "id.Generator",
              signatureGenerator |-> "auth.Generator",
              requester |-> [Client |-> "http.DefaultClient", BaseURL |-> uatSandboxBaseURL]]
        r == UpdateConfig(c, apiKey, secretKey, opts)
    IN  IF r.err # Nil THEN [c |-> Nil, err |-> r.err] ELSE [c |-> r.c, err |-> Nil]

\* New: the client with its defaults, then UpdateConfig; nil when that fails.
New(apiKey, secretKey, opts) ==
    LET c == [apiKey |-> << >>,
              secretKey |-> << >>,
              clock |-> "clockwork.RealClock",
              idGenerator |-> "id.Generator",
              signatureGenerator |-> "auth.Generator",
              requester |-> [Client |-> "http.DefaultClient", BaseURL |-> productionBaseURL]]
        r == UpdateConfig(c, apiKey, secretKey, opts)
    IN  IF r.err # Nil THEN [c |-> Nil, err |-> r.err] ELSE [c |-> r.c, err |-> Nil]

\* The earlier client (unnamed/part_002): its fields are apiKey, secretKey,
\* baseURL, client, clock and idGenerator, and its options WithUATEnvironment and
\* WithHTTPClient.
EarlierApplyOption(c, o) ==
    CASE o.opt = "WithUATEnvironment" ->
            [c |-> [c EXCEPT !.baseURL = uatSandboxBaseURL], err |-> Nil]
      [] o.opt = "WithHTTPClient" ->
            IF o.arg = "nil"
            THEN [c |-> c, err |-> InvalidParameterError("httpClient", "cannot be empty")]
            ELSE [c |-> [c EXCEPT !.client = o.arg], err |-> Nil]

RECURSIVE EarlierApplyOptions(_, _)
EarlierApplyOptions(c, opts) ==
    IF opts = << >> THEN [c |-> c, err |-> Nil]
    ELSE LET r == EarlierApplyOption(c, Head(opts))
         IN  IF r.err # Nil THEN r ELSE EarlierApplyOptions(r.c, Tail(opts))

\* The earlier UpdateConfig: it sets the base URL to production on every call,
\* before the options.
EarlierUpdateConfig(c, apiKey, secretKey, opts) ==
    IF apiKey = << >>
    THEN [c |-> c, err |-> InvalidParameterError("apiKey", "cannot be empty")]
    ELSE IF secretKey = << >>
    THEN [c |-> c, err |-> InvalidParameterError("secretKey", "cannot be empty")]
    ELSE EarlierApplyOptions([c EXCEPT !.apiKey = apiKey, !.secretKey = secretKey,
                                       !.baseURL = productionBaseURL], opts)

(***************************************************************************)
(* internal/api: Requester.Post / Get                                      *)
(***************************************************************************)

\* What the network does with one request: the transport fails, the body cannot be
\* read, the body is not the JSON expected, or a response envelope arrives with an
\* HTTP status, a code (a json.Number: its literal text, empty when absent) and a
\* result.
TransportFails == [kind |-> "transport error"]
ReadFails == [kind |-> "read error"]
BadJSON(status) == [kind |-> "bad json", status |-> status]
Response(status, code, result) ==
    [kind |-> "response", status |-> status, code |-> code, result |-> result]

\* The context a caller passes: a nil context.Context or context.Background().
NilContext == "nil"
Background == "context.Background"

\* A float64 NaN held in the params of a request body: a value encoding/json
\* refuses to encode.
NaN == [t |-> "float64", nan |-> TRUE]

\* json.Marshal(body): it fails when a value of body.Params has no JSON encoding.
Marshal(body) ==
    IF body.Params # Nil /\ \E k \in DOMAIN body.Params : body.Params[k] = NaN
    THEN [b |-> Nil, err |-> NewError(<<"U">>)]
    ELSE [b |-> body, err |-> Nil]

\* http.NewRequestWithContext: it fails on a nil context.
NewRequestWithContext(ctx, httpMethod, url, b) ==
    IF ctx = NilContext
    THEN [req |-> Nil, err |-> NewError(<<"C">>)]
    ELSE [req |-> [httpMethod |-> httpMethod, base |-> url.base, path |-> url.path,
                   client |-> url.client, body |-> b],
          err |-> Nil]

\* A plausible slip: the HTTP status returned beside the error when the body of
\* the response does not decode.
doRequest_KeepsStatus(r, ctx, httpMethod, body, method, net) ==
    LET m == Marshal(body)
        created == NewRequestWithContext(ctx, httpMethod,
                       [base |-> r.BaseURL, path |-> method, client |-> r.Client], m.b)
        req == created.req
    IN  IF m.err # Nil
        THEN [status |-> 0, err |-> WrapError("failed to marshal request body", m.err),
              response |-> Nil, sent |-> Nil]
        ELSE IF created.err # Nil
        THEN [status |-> 0, err |-> WrapError("failed to create request", created.err),
              response |-> Nil, sent |-> Nil]
        ELSE CASE net.kind = "transport error" ->
                [status |-> 0, err |-> WrapError("failed to do request", NewError(<<"E">>)),
                 response |-> Nil, sent |-> req]
          [] net.kind = "read error" ->
                [status |-> 0, err |-> WrapError("failed to read response body", NewError(<<"E">>)),
                 response |-> Nil, sent |-> req]
          [] net.kind = "bad json" ->
                [status |-> net.status,
                 err |-> WrapError("failed to unmarshal response body", NewError(<<"E">>)),
                 response |-> Nil, sent |-> req]
          [] net.kind = "response" ->
                [status |-> net.status, err |-> Nil,
                 response |-> [Code |-> net.code, Result |-> net.result], sent |-> req]

\* Requester.doRequest: the status and error returned, the response decoded and the
\* request handed to the HTTP client (nil when none was).
doRequest(r, ctx, httpMethod, body, method, net) ==
    LET m == Marshal(body)
        created == NewRequestWithContext(ctx, httpMethod,
                       [base |-> r.BaseURL, path |-> method, client |-> r.Client], m.b)
        req == created.req
    IN  IF m.err # Nil
        THEN [status |-> 0, err |-> WrapError("failed to marshal request body", m.err),
              response |-> Nil, sent |-> Nil]
        ELSE IF created.err # Nil
        THEN [status |-> 0, err |-> WrapError("failed to create request", created.err),
              response |-> Nil, sent |-> Nil]
        ELSE CASE net.kind = "transport error" ->
                [status |-> 0, err |-> WrapError("failed to do request", NewError(<<"E">>)),
                 response |-> Nil, sent |-> req]
          [] net.kind = "read error" ->
                [status |-> 0, err |-> WrapError("failed to read response body", NewError(<<"E">>)),
                 response |-> Nil, sent |-> req]
          [] net.kind = "bad json" ->
                [status |-> 0,
                 err |-> WrapError("failed to unmarshal response body", NewError(<<"E">>)),
                 response |-> Nil, sent |-> req]
          [] net.kind = "response" ->
                [status |-> net.status, err |-> Nil,
                 response |-> [Code |-> net.code, Result |-> net.result], sent |-> req]

Post(r, ctx, body, method, net) == doRequest(r, ctx, "POST", body, method, net)

(***************************************************************************)
(* The endpoint operations                                                 *)
(***************************************************************************)

\* Generator.Generate of internal/id, the id generator of a client built by New:
\* it returns rand.Int63(), a non-negative pseudo-random integer that depends on
\* the state of the process-wide source alone; int63 is the value that source
\* yields. Nothing in Generate relates it to the ids returned before.
Generate(int63) == int63

\* c.idGenerator.Generate(): the default generator, or a substitute that returns
\* the id it was set up with.
ClientGenerate(c, int63) == IF c.idGenerator = "id.Generator" THEN Generate(int63) ELSE 1234

\* One invocation of a collaborator during an endpoint operation: the id generator
\* and the clock with the value they returned, the signature generator with the
\* request it was given, the HTTP client with the request handed to Do.
Invoked(call, arg) == [call |-> call, arg |-> arg]

\* The calls of one collaborator in a trace.
RECURSIVE CallsOf(_, _)
CallsOf(trace, call) ==
    IF trace = << >> THEN << >>
    ELSE (IF Head(trace).call = call THEN <<Head(trace)>> ELSE << >>)
            \o CallsOf(Tail(trace), call)

\* The error a substituted signature generator returns: one allocation, made by
\* the caller before the call.
testErr == Sentinel("testErr")

\* The string a substituted signature generator returns.
mockSignature == <<"s", "i", "g", "n", "a", "t", "u", "r", "e">>

\* The client's signature generator: the real one, a substitute that returns a
\* string with an error, or a substitute that returns the string alone.
ClientGenerateSignature(c, req, order) ==
    CASE c.signatureGenerator = "auth.Generator" -> GenerateSignature(req, order)
      [] c.signatureGenerator = "failing" ->
            [paramStr |-> << >>, payload |-> << >>, sig |-> mockSignature, err |-> testErr]
      [] OTHER ->
            [paramStr |-> << >>, payload |-> << >>, sig |-> mockSignature, err |-> Nil]

\* A plausible slip: the classifier's error is replaced by a new error that keeps
\* only its text (%v instead of %w).
WrapResponseError_Flattened(err) == NewError(<<"e", "r", "r", "o", "r">>)

\* fmt.Errorf("error received in response: %w", err) of the endpoint operations.
WrapResponseError(err) == WrapError("error received in response", err)

\* client.GetAccountSummary, given what its collaborators do during the call: the
\* id generated, the clock's reading, the order in which the params map is ranged
\* over and what the network does. The record holds the value and error returned
\* and, for inspection, the request signed and the request dispatched.
GetAccountSummary(c, currency, id, timestamp, order, net) ==
    LET params == IF currency # << >> THEN keyCurrency :> StringVal(currency) ELSE EmptyMap
        sigReq == [APIKey |-> c.apiKey, SecretKey |-> c.secretKey, ID |-> id,
                   Method |-> methodGetAccountSummary, Timestamp |-> timestamp,
                   Params |-> params]
        signed == ClientGenerateSignature(c, sigReq, IF params = EmptyMap THEN << >> ELSE order)
        body == [ID |-> id, Method |-> methodGetAccountSummary, Nonce |-> timestamp,
                 Params |-> params, Signature |-> signed.sig, APIKey |-> c.apiKey]
        posted == Post(c.requester, Background, body, methodGetAccountSummary, net)
        checked == CheckErrorResponse(posted.status, posted.response.Code)
        called == <<Invoked("idGenerator.Generate", id), Invoked("clock.Now", timestamp),
                    Invoked("GenerateSignature", sigReq)>>
        base == [made |-> TRUE, op |-> "GetAccountSummary", signed |-> sigReq, sent |-> Nil,
                 status |-> 0, code |-> << >>, result |-> Nil, err |-> Nil,
                 params |-> params, sig |-> signed.sig, trace |-> called]
        done == [base EXCEPT !.sent = posted.sent,
                             !.trace = called \o <<Invoked("Client.Do", posted.sent)>>]
    IN  IF signed.err # Nil
        THEN [base EXCEPT !.err = WrapError("failed to create signature", signed.err)]
        ELSE IF posted.err # Nil
        THEN [done EXCEPT !.err = WrapError("failed to execute post request", posted.err)]
        ELSE IF checked # Nil
        THEN [done EXCEPT !.status = posted.status,
                          !.code = posted.response.Code,
                          !.err = WrapResponseError(checked)]
        ELSE [done EXCEPT !.status = posted.status,
                          !.code = posted.response.Code,
                          !.result = posted.response.Result]

Get(r, ctx, body, method, net) == doRequest(r, ctx, "GET", body, method, net)

methodGetOrderDetail == <<"p", "r", "i", "v", "a", "t", "e", "/", "g", "e", "t", "-", "o", "r", "d", "e", "r", "-", "d", "e", "t", "a", "i", "l">>
methodCancelOrder == <<"p", "r", "i", "v", "a", "t", "e", "/", "c", "a", "n", "c", "e", "l", "-", "o", "r", "d", "e", "r">>
methodCancelAllOrders == <<"p", "r", "i", "v", "a", "t", "e", "/", "c", "a", "n", "c", "e", "l", "-", "a", "l", "l", "-", "o", "r", "d", "e", "r", "s">>
methodGetOpenOrders == <<"p", "r", "i", "v", "a", "t", "e", "/", "g", "e", "t", "-", "o", "p", "e", "n", "-", "o", "r", "d", "e", "r", "s">>
methodGetOrderHistory == <<"p", "r", "i", "v", "a", "t", "e", "/", "g", "e", "t", "-", "o", "r", "d", "e", "r", "-", "h", "i", "s", "t", "o", "r", "y">>
methodGetTrades == <<"p", "r", "i", "v", "a", "t", "e", "/", "g", "e", "t", "-", "t", "r", "a", "d", "e", "s">>
methodGetInstruments == <<"p", "u", "b", "l", "i", "c", "/", "g", "e", "t", "-", "i", "n", "s", "t", "r", "u", "m", "e", "n", "t", "s">>
methodGetTicker == <<"p", "u", "b", "l", "i", "c", "/", "g", "e", "t", "-", "t", "i", "c", "k", "e", "r">>
methodGetBook == <<"p", "u", "b", "l", "i", "c", "/", "g", "e", "t", "-", "b", "o", "o", "k">>

keyOrderID == <<"o", "r", "d", "e", "r", "_", "i", "d">>
keyStartTS == <<"s", "t", "a", "r", "t", "_", "t", "s">>
keyEndTS == <<"e", "n", "d", "_", "t", "s">>
keySide == <<"s", "i", "d", "e">>
keyType == <<"t", "y", "p", "e">>
keyQuantity == <<"q", "u", "a", "n", "t", "i", "t", "y">>
keyClientOID == <<"c", "l", "i", "e", "n", "t", "_", "o", "i", "d">>
keyTimeInForce == <<"t", "i", "m", "e", "_", "i", "n", "_", "f", "o", "r", "c", "e">>
keyExecInst == <<"e", "x", "e", "c", "_", "i", "n", "s", "t">>
keyTriggerPrice == <<"t", "r", "i", "g", "g", "e", "r", "_", "p", "r", "i", "c", "e">>
keyDepth == <<"d", "e", "p", "t", "h">>

\* A time.Time: the zero Time (January 1, year 1) or an instant given by its
\* milliseconds since the Unix epoch.
ZeroTime == [zero |-> TRUE]
UnixMilliTime(ms) == [zero |-> FALSE, ms |-> ms]
IsZero(t) == t.zero
UnixMilli(t) == t.ms

\* params[key] = val when cond holds, as one map to merge.
SetIf(cond, key, val) == IF cond THEN key :> val ELSE EmptyMap

\* What an operation returns when it rejects its input: the error alone, before any
\* collaborator is invoked.
Rejected(op, err) ==
    [made |-> TRUE, op |-> op, signed |-> Nil, sent |-> Nil, status |-> 0, code |-> << >>,
     result |-> Nil, err |-> err, params |-> Nil, sig |-> Nil, trace |-> << >>]

\* A plausible slip: the request is dispatched again when the first attempt fails.
SignedPost_Retries(c, op, method, sigContext, params, id, timestamp, order, net) ==
    LET sigReq == [APIKey |-> c.apiKey, SecretKey |-> c.secretKey, ID |-> id,
                   Method |-> method, Timestamp |-> timestamp, Params |-> params]
        signed == ClientGenerateSignature(c, sigReq, order)
        body == [ID |-> id, Method |-> method, Nonce |-> timestamp, Params |-> params,
                 Signature |-> signed.sig, APIKey |-> c.apiKey]
        posted == Post(c.requester, Background, body, method, net)
        checked == CheckErrorResponse(posted.status, posted.response.Code)
        called == <<Invoked("idGenerator.Generate", id), Invoked("clock.Now", timestamp),
                    Invoked("GenerateSignature", sigReq)>>
        base == [made |-> TRUE, op |-> op, signed |-> sigReq, sent |-> Nil,
                 status |-> 0, code |-> << >>, result |-> Nil, err |-> Nil,
                 params |-> params, sig |-> signed.sig, trace |-> called]
        done == [base EXCEPT !.sent = posted.sent,
                             !.trace = called \o <<Invoked("Client.Do", posted.sent)>>]
        again == [done EXCEPT !.trace = done.trace \o <<Invoked("Client.Do", posted.sent)>>]
    IN  IF signed.err # Nil
        THEN [base EXCEPT !.err = WrapError(sigContext, signed.err)]
        ELSE IF posted.err # Nil
        THEN [again EXCEPT !.err = WrapError("failed to execute post request", posted.err)]
        ELSE IF checked # Nil
        THEN [again EXCEPT !.status = posted.status, !.code = posted.response.Code,
                           !.err = WrapResponseError(checked)]
        ELSE [done EXCEPT !.status = posted.status, !.code = posted.response.Code,
                          !.result = posted.response.Result]

\* A plausible slip: the body is built from a second reading of the clock.
SignedPost_SecondClock(c, op, method, sigContext, params, id, timestamp, order, net) ==
    LET sigReq == [APIKey |-> c.apiKey, SecretKey |-> c.secretKey, ID |-> id,
                   Method |-> method, Timestamp |-> timestamp, Params |-> params]
        signed == ClientGenerateSignature(c, sigReq, order)
        body == [ID |-> id, Method |-> method, Nonce |-> timestamp + 1, Params |-> params,
                 Signature |-> signed.sig, APIKey |-> c.apiKey]
        posted == Post(c.requester, Background, body, method, net)
        checked == CheckErrorResponse(posted.status, posted.response.Code)
        called == <<Invoked("idGenerator.Generate", id), Invoked("clock.Now", timestamp),
                    Invoked("GenerateSignature", sigReq), Invoked("clock.Now", timestamp + 1)>>
        base == [made |-> TRUE, op |-> op, signed |-> sigReq, sent |-> Nil,
                 status |-> 0, code |-> << >>, result |-> Nil, err |-> Nil,
                 params |-> params, sig |-> signed.sig, trace |-> called]
        done == [base EXCEPT !.sent = posted.sent,
                             !.trace = called \o <<Invoked("Client.Do", posted.sent)>>]
    IN  IF signed.err # Nil
        THEN [base EXCEPT !.err = WrapError(sigContext, signed.err)]
        ELSE IF posted.err # Nil
        THEN [done EXCEPT !.err = WrapError("failed to execute post request", posted.err)]
        ELSE IF checked # Nil
        THEN [done EXCEPT !.status = posted.status, !.code = posted.response.Code,
                          !.err = WrapResponseError(checked)]
        ELSE [done EXCEPT !.status = posted.status, !.code = posted.response.Code,
                          !.result = posted.response.Result]

\* A plausible slip: the generator's error is ignored and the request goes out.
SignedPost_IgnoresSignatureError(c, op, method, sigContext, params, id, timestamp, order, net) ==
    LET sigReq == [APIKey |-> c.apiKey, SecretKey |-> c.secretKey, ID |-> id,
                   Method |-> method, Timestamp |-> timestamp, Params |-> params]
        signed == ClientGenerateSignature(c, sigReq, order)
        body == [ID |-> id, Method |-> method, Nonce |-> timestamp, Params |-> params,
                 Signature |-> signed.sig, APIKey |-> c.apiKey]
        posted == Post(c.requester, Background, body, method, net)
        checked == CheckErrorResponse(posted.status, posted.response.Code)
        called == <<Invoked("idGenerator.Generate", id), Invoked("clock.Now", timestamp),
                    Invoked("GenerateSignature", sigReq)>>
        base == [made |-> TRUE, op |-> op, signed |-> sigReq, sent |-> Nil,
                 status |-> 0, code |-> << >>, result |-> Nil, err |-> Nil,
                 params |-> params, sig |-> signed.sig, trace |-> called]
        done == [base EXCEPT !.sent = posted.sent,
                             !.trace = called \o <<Invoked("Client.Do", posted.sent)>>]
    IN  IF posted.err # Nil
        THEN [done EXCEPT !.err = WrapError("failed to execute post request", posted.err)]
        ELSE IF checked # Nil
        THEN [done EXCEPT !.status = posted.status, !.code = posted.response.Code,
                          !.err = WrapResponseError(checked)]
        ELSE [done EXCEPT !.status = posted.status, !.code = posted.response.Code,
                          !.result = posted.response.Result]

\* The steps every private operation takes once its input is accepted and its
\* params map is built (the id and the timestamp are read first, in that order):
\* the signature generator is called with the client's keys, the id, the method,
\* the timestamp and the map; the body carries the same values and the signature;
\* the requester posts it; the response is classified.
SignedPost(c, op, method, sigContext, params, id, timestamp, order, net) ==
    LET sigReq == [APIKey |-> c.apiKey, SecretKey |-> c.secretKey, ID |-> id,
                   Method |-> method, Timestamp |-> timestamp, Params |-> params]
        signed == ClientGenerateSignature(c, sigReq, order)
        body == [ID |-> id, Method |-> method, Nonce |-> timestamp, Params |-> params,
                 Signature |-> signed.sig, APIKey |-> c.apiKey]
        posted == Post(c.requester, Background, body, method, net)
        checked == CheckErrorResponse(posted.status, posted.response.Code)
        called == <<Invoked("idGenerator.Generate", id), Invoked("clock.Now", timestamp),
                    Invoked("GenerateSignature", sigReq)>>
        base == [made |-> TRUE, op |-> op, signed |-> sigReq, sent |-> Nil,
                 status |-> 0, code |-> << >>, result |-> Nil, err |-> Nil,
                 params |-> params, sig |-> signed.sig, trace |-> called]
        done == [base EXCEPT !.sent = posted.sent,
                             !.trace = called \o <<Invoked("Client.Do", posted.sent)>>]
    IN  IF signed.err # Nil
        THEN [base EXCEPT !.err = WrapError(sigContext, signed.err)]
        ELSE IF posted.err # Nil
        THEN [done EXCEPT !.err = WrapError("failed to execute post request", posted.err)]
        ELSE IF checked # Nil
        THEN [done EXCEPT !.status = posted.status, !.code = posted.response.Code,
                          !.err = WrapResponseError(checked)]
        ELSE [done EXCEPT !.status = posted.status, !.code = posted.response.Code,
                          !.result = posted.response.Result]

\* An operation that returns only an error: there is no result to return.
ErrorOnly(r) == [r EXCEPT !.result = Nil]

\* A plausible slip: the id and the timestamp are obtained before the check.
GetOrderDetail_ValidatesLate(c, orderID, id, timestamp, order, net) ==
    IF orderID = << >>
    THEN [Rejected("GetOrderDetail", InvalidParameterError("orderID", "cannot be empty"))
            EXCEPT !.trace = <<Invoked("idGenerator.Generate", id),
                               Invoked("clock.Now", timestamp)>>]
    ELSE SignedPost(c, "GetOrderDetail", methodGetOrderDetail, "failed to create signature",
                    keyOrderID :> StringVal(orderID), id, timestamp, order, net)

\* client.GetOrderDetail.
GetOrderDetail(c, orderID, id, timestamp, order, net) ==
    IF orderID = << >>
    THEN Rejected("GetOrderDetail", InvalidParameterError("orderID", "cannot be empty"))
    ELSE SignedPost(c, "GetOrderDetail", methodGetOrderDetail, "failed to create signature",
                    keyOrderID :> StringVal(orderID), id, timestamp, order, net)

\* A plausible slip: the two checks in the other order.
CancelOrder_OrderIDFirst(c, instrumentName, orderID, id, timestamp, order, net) ==
    IF orderID = << >>
    THEN Rejected("CancelOrder", InvalidParameterError("orderID", "cannot be empty"))
    ELSE IF instrumentName = << >>
    THEN Rejected("CancelOrder", InvalidParameterError("instrumentName", "cannot be empty"))
    ELSE ErrorOnly(SignedPost(c, "CancelOrder", methodCancelOrder, "failed to cancel signature",
                    keyInstrumentName :> StringVal(instrumentName)
                        @@ keyOrderID :> StringVal(orderID),
                    id, timestamp, order, net))

\* client.CancelOrder.
CancelOrder(c, instrumentName, orderID, id, timestamp, order, net) ==
    IF instrumentName = << >>
    THEN Rejected("CancelOrder", InvalidParameterError("instrumentName", "cannot be empty"))
    ELSE IF orderID = << >>
    THEN Rejected("CancelOrder", InvalidParameterError("orderID", "cannot be empty"))
    ELSE ErrorOnly(SignedPost(c, "CancelOrder", methodCancelOrder, "failed to cancel signature",
                    keyInstrumentName :> StringVal(instrumentName)
                        @@ keyOrderID :> StringVal(orderID),
                    id, timestamp, order, net))

\* client.CancelAllOrders.
CancelAllOrders(c, instrumentName, id, timestamp, order, net) ==
    IF instrumentName = << >>
    THEN Rejected("CancelAllOrders",
                  InvalidParameterError("instrumentName", "cannot be empty"))
    ELSE ErrorOnly(SignedPost(c, "CancelAllOrders", methodCancelAllOrders,
                    "failed to cancel signature",
                    keyInstrumentName :> StringVal(instrumentName),
                    id, timestamp, order, net))

\* A plausible slip: page guarded like the other optional fields.
GetOpenOrdersParams_PageIfSet(req) ==
    SetIf(req.InstrumentName # << >>, keyInstrumentName, StringVal(req.InstrumentName))
        @@ SetIf(req.PageSize # 0, keyPageSize, IntVal(req.PageSize))
        @@ SetIf(req.Page # 0, keyPage, IntVal(req.Page))

\* The params map GetOpenOrders builds from its request.
GetOpenOrdersParams(req) ==
    SetIf(req.InstrumentName # << >>, keyInstrumentName, StringVal(req.InstrumentName))
        @@ SetIf(req.PageSize # 0, keyPageSize, IntVal(req.PageSize))
        @@ keyPage :> IntVal(req.Page)

\* A plausible slip: the upper limit itself is rejected.
GetOpenOrders_Below200(c, req, id, timestamp, order, net) ==
    IF req.PageSize < 0
    THEN Rejected("GetOpenOrders",
                  InvalidParameterError("req.PageSize", "cannot be less than 0"))
    ELSE IF req.PageSize >= 200
    THEN Rejected("GetOpenOrders",
                  InvalidParameterError("req.PageSize", "cannot be greater than 200"))
    ELSE SignedPost(c, "GetOpenOrders", methodGetOpenOrders, "failed to create signature",
                    GetOpenOrdersParams(req), id, timestamp, order, net)

\* client.GetOpenOrders.
GetOpenOrders(c, req, id, timestamp, order, net) ==
    IF req.PageSize < 0
    THEN Rejected("GetOpenOrders",
                  InvalidParameterError("req.PageSize", "cannot be less than 0"))
    ELSE IF req.PageSize > 200
    THEN Rejected("GetOpenOrders",
                  InvalidParameterError("req.PageSize", "cannot be greater than 200"))
    ELSE SignedPost(c, "GetOpenOrders", methodGetOpenOrders, "failed to create signature",
                    GetOpenOrdersParams(req), id, timestamp, order, net)

\* A plausible slip: the start of the range is always sent, as page is.
GetOrderHistoryParams_AlwaysStart(req) ==
    SetIf(req.InstrumentName # << >>, keyInstrumentName, StringVal(req.InstrumentName))
        @@ SetIf(req.PageSize # 0, keyPageSize, IntVal(req.PageSize))
        @@ keyStartTS :> IntVal(IF IsZero(req.Start) THEN 0 ELSE UnixMilli(req.Start))
        @@ SetIf(~IsZero(req.End), keyEndTS, IntVal(UnixMilli(req.End)))
        @@ keyPage :> IntVal(req.Page)

\* The params map GetOrderHistory builds from its request.
GetOrderHistoryParams(req) ==
    SetIf(req.InstrumentName # << >>, keyInstrumentName, StringVal(req.InstrumentName))
        @@ SetIf(req.PageSize # 0, keyPageSize, IntVal(req.PageSize))
        @@ SetIf(~IsZero(req.Start), keyStartTS, IntVal(UnixMilli(req.Start)))
        @@ SetIf(~IsZero(req.End), keyEndTS, IntVal(UnixMilli(req.End)))
        @@ keyPage :> IntVal(req.Page)

\* client.GetOrderHistory.
GetOrderHistory(c, req, id, timestamp, order, net) ==
    IF req.PageSize < 0
    THEN Rejected("GetOrderHistory",
                  InvalidParameterError("req.PageSize", "cannot be less than 0"))
    ELSE IF req.PageSize > 200
    THEN Rejected("GetOrderHistory",
                  InvalidParameterError("req.PageSize", "cannot be greater than 200"))
    ELSE SignedPost(c, "GetOrderHistory", methodGetOrderHistory, "failed to create signature",
                    GetOrderHistoryParams(req), id, timestamp, order, net)

\* The params map GetTrades builds from its request.
GetTradesParams(req) ==
    SetIf(req.InstrumentName # << >>, keyInstrumentName, StringVal(req.InstrumentName))
        @@ SetIf(req.PageSize # 0, keyPageSize, IntVal(req.PageSize))
        @@ SetIf(~IsZero(req.Start), keyStartTS, IntVal(UnixMilli(req.Start)))
        @@ SetIf(~IsZero(req.End), keyEndTS, IntVal(UnixMilli(req.End)))
        @@ keyPage :> IntVal(req.Page)

\* client.GetTrades.
GetTrades(c, req, id, timestamp, order, net) ==
    IF req.PageSize < 0
    THEN Rejected("GetTrades", InvalidParameterError("req.PageSize", "cannot be less than 0"))
    ELSE IF req.PageSize > 200
    THEN Rejected("GetTrades",
                  InvalidParameterError("req.PageSize", "cannot be greater than 200"))
    ELSE SignedPost(c, "GetTrades", methodGetTrades, "failed to create signature",
                    GetTradesParams(req), id, timestamp, order, net)

\* The params map CreateOrder builds from its request.
CreateOrderParams(req) ==
    SetIf(req.InstrumentName # << >>, keyInstrumentName, StringVal(req.InstrumentName))
        @@ SetIf(req.Side # << >>, keySide, StringVal(req.Side))
        @@ SetIf(req.Type # << >>, keyType, StringVal(req.Type))
        @@ SetIf(~IsZeroValue(req.Price), keyPrice, req.Price)
        @@ SetIf(~IsZeroValue(req.Quantity), keyQuantity, req.Quantity)
        @@ SetIf(~IsZeroValue(req.Notional), keyNotional, req.Notional)
        @@ SetIf(req.ClientOID # << >>, keyClientOID, StringVal(req.ClientOID))
        @@ SetIf(req.TimeInForce # << >>, keyTimeInForce, StringVal(req.TimeInForce))
        @@ SetIf(req.ExecInst # << >>, keyExecInst, StringVal(req.ExecInst))
        @@ SetIf(~IsZeroValue(req.TriggerPrice), keyTriggerPrice, req.TriggerPrice)

\* A plausible slip: the instrument name required, as the other operations do.
CreateOrder_Validates(c, req, id, timestamp, order, net) ==
    IF req.InstrumentName = << >>
    THEN Rejected("CreateOrder",
                  InvalidParameterError("req.InstrumentName", "cannot be empty"))
    ELSE SignedPost(c, "CreateOrder", methodCreateOrder, "failed to create signature",
                    CreateOrderParams(req), id, timestamp, order, net)

\* client.CreateOrder.
CreateOrder(c, req, id, timestamp, order, net) ==
    SignedPost(c, "CreateOrder", methodCreateOrder, "failed to create signature",
               CreateOrderParams(req), id, timestamp, order, net)

\* client.GetInstruments: a public operation sent through the requester's Get, with
\* an id and a nonce in its body and nothing signed.
GetInstruments(c, id, timestamp, net) ==
    LET body == [ID |-> id, Method |-> methodGetInstruments, Nonce |-> timestamp,
                 Params |-> Nil, Signature |-> << >>, APIKey |-> << >>]
        got == Get(c.requester, Background, body, methodGetInstruments, net)
        checked == CheckErrorResponse(got.status, got.response.Code)
        done == [made |-> TRUE, op |-> "GetInstruments", signed |-> Nil, sent |-> got.sent,
                 status |-> 0, code |-> << >>, result |-> Nil, err |-> Nil,
                 params |-> Nil, sig |-> Nil,
                 trace |-> <<Invoked("idGenerator.Generate", id),
                             Invoked("clock.Now", timestamp),
                             Invoked("Client.Do", got.sent)>>]
    IN  IF got.err # Nil
        THEN [done EXCEPT !.err = WrapError("failed to execute post request", got.err)]
        ELSE IF checked # Nil
        THEN [done EXCEPT !.status = got.status, !.code = got.response.Code,
                          !.err = WrapResponseError(checked)]
        ELSE [done EXCEPT !.status = got.status, !.code = got.response.Code,
                          !.result = got.response.Result]

\* A public operation that builds its own GET request with a query string: the
\* request handed to the HTTP client, then the reading, the decoding and the
\* classification of the response. decoded is what the operation holds as its
\* result once the body is decoded.
PublicGet(c, op, method, query, net, decoded) ==
    LET req == [httpMethod |-> "GET", base |-> c.requester.BaseURL, path |-> method,
                client |-> c.requester.Client, query |-> query, body |-> Nil]
        checked == CheckErrorResponse(net.status, net.code)
        done == [made |-> TRUE, op |-> op, signed |-> Nil, sent |-> req,
                 status |-> 0, code |-> << >>, result |-> Nil, err |-> Nil,
                 params |-> Nil, sig |-> Nil, trace |-> <<Invoked("Client.Do", req)>>]
    IN  CASE net.kind = "transport error" ->
                [done EXCEPT !.err = WrapError("failed to do request", NewError(<<"E">>))]
          [] net.kind = "read error" ->
                [done EXCEPT !.err = WrapError("failed to read response body",
                                               NewError(<<"E">>))]
          [] net.kind = "bad json" ->
                [done EXCEPT !.err = WrapError("failed to unmarshal response body",
                                               NewError(<<"E">>))]
          [] net.kind = "response" ->
                IF checked # Nil
                THEN [done EXCEPT !.status = net.status, !.code = net.code,
                                  !.err = WrapResponseError(checked)]
                ELSE [done EXCEPT !.status = net.status, !.code = net.code,
                                  !.result = decoded]

\* The []Ticker GetTickers holds once the body is decoded: the list of the
\* response when no instrument is named, the one ticker of the response as a list
\* otherwise.
Tickers(instrument, data) ==
    [tickers |-> IF instrument = << >> THEN data ELSE <<data>>]

\* A plausible slip: the tickers decoded before the classification are returned
\* together with the error.
GetTickers_KeepsTickers(c, instrument, net) ==
    LET r == PublicGet(c, "GetTickers", methodGetTicker,
                       SetIf(instrument # << >>, keyInstrumentName, instrument), net,
                       IF net.kind # "response" THEN Nil
                       ELSE Tickers(instrument, net.result))
    IN  IF net.kind = "response"
        THEN [r EXCEPT !.result = Tickers(instrument, net.result)]
        ELSE r

\* client.GetTickers: the list of the response when no instrument is named, the
\* one ticker of the response as a list otherwise.
GetTickers(c, instrument, net) ==
    PublicGet(c, "GetTickers", methodGetTicker,
              SetIf(instrument # << >>, keyInstrumentName, instrument), net,
              IF net.kind # "response" THEN Nil
              ELSE Tickers(instrument, net.result))

\* client.GetBook.
GetBook(c, instrument, depth, net) ==
    PublicGet(c, "GetBook", methodGetBook,
              keyInstrumentName :> instrument
                @@ SetIf(depth > 0, keyDepth, FormatInt(depth)),
              net,
              IF net.kind # "response" THEN Nil ELSE net.result)

(***************************************************************************)
(* Inputs of the classifier and of the client                              *)
(***************************************************************************)

\* The codes the switch of newResponseError names.
TaxonomyCodes ==
    {10001, 100001, 10002, 10003, 10004, 10005, 10006, 10007, 10008, 10009,
     20001, 20002, 30003, 30004, 30005, 30006, 30007, 30008, 30009, 30010,
     30013, 30014, 30016, 30017, 30023, 30024, 30025,
     40001, 40002, 40003, 40004, 40005, 40006, 40007, 50001}

\* Non-zero codes the switch does not name.
UnknownCodes == {1, -1, 99999, 10000, 10010, 30015, 40008}

\* Texts of a json.Number that are no int64.
MalformedCodes ==
    {<< >>,
     <<"a", "b", "c">>,
     <<"1", ".", "5">>,
     <<"1", "e", "3">>,
     <<"1", "0", "0", "0", "3", "x">>,
     <<"-">>,
     <<"9", "2", "2", "3", "3", "7", "2", "0", "3", "6", "8", "5", "4", "7", "7", "5", "8", "0", "8">>}

\* Texts of code 0.
ZeroCodes == {<<"0">>, <<"-", "0">>, <<"0", "0">>}

ResponseCodes ==
    {FormatInt(n) : n \in TaxonomyCodes \cup UnknownCodes} \cup MalformedCodes \cup ZeroCodes

HTTPStatuses == {100, 199, 200, 299, 301, 399, 400, 401, 418, 429, 500, 599}

\* The longest sequence of options passed to New.
MaxOpts == 2

ClientOptions ==
    {WithProductionEnvironment, WithUATEnvironment,
     WithHTTPClient("nil"), WithHTTPClient("custom"),
     WithSignatureGenerator("failing")}

OptionSeqs == UNION {[1..n -> ClientOptions] : n \in 0..MaxOpts}

\* The clients New returns.
Clients ==
    {New(k, s, opts).c : k \in {<<"k">>}, s \in {<<"s">>}, opts \in OptionSeqs} \ {Nil}

Currencies == {<< >>, <<"C", "R", "O">>}
GeneratedIDs == {7, 1234}
NetStatuses == {200, 400, 418}
NetOutcomes ==
    {TransportFails, ReadFails}
    \cup {BadJSON(s) : s \in NetStatuses}
    \cup {Response(s, code, "accounts") : s \in NetStatuses, code \in ResponseCodes}

(***************************************************************************)
(* Specifications                                                          *)
(***************************************************************************)

\* SpecSig: one request, signed under some order of iteration over its params.
InitSig ==
    /\ inp \in [req : SignatureRequests]
    /\ last = NoCall
    /\ calls = << >>
    /\ now = 0
    /\ chk = NoCall
    /\ client = Nil
    /\ ret = NoCall

Sign(order) ==
    /\ last' = [made |-> TRUE, req |-> inp.req, order |-> order,
                out |-> GenerateSignature(inp.req, order)]
    /\ UNCHANGED <<inp, calls, now, chk, client, ret>>

NextSig == \E order \in IterationOrders(inp.req.Params) : Sign(order)

SpecSig == InitSig /\ [][NextSig]_vars

\* SpecPure: a history of calls of GenerateSignature on two requests, while the
\* clock moves and the client is reconfigured.
MaxCalls == 2

PureRequests ==
    [Method : {methodGetAccountSummary}, ID : {7}, APIKey : {<<"k">>},
     SecretKey : {<<"s">>}, Timestamp : {0, 12},
     Params : {EmptyMap,
               keyCurrency :> StringVal(<<"C", "R", "O">>) @@ keyX :> IntVal(0)}]

InitPure ==
    /\ inp \in [req : PureRequests, other : PureRequests]
    /\ last = NoCall
    /\ calls = << >>
    /\ now = 0
    /\ chk = NoCall
    /\ client = New(<<"k">>, <<"s">>, << >>).c
    /\ ret = NoCall

SignAgain(req, order) ==
    /\ Len(calls) < MaxCalls
    /\ last' = [made |-> TRUE, req |-> req, order |-> order,
                out |-> GenerateSignature(req, order)]
    /\ calls' = Append(calls, [req |-> req, order |-> order, at |-> now, cfg |-> client,
                               out |-> last'.out])
    /\ UNCHANGED <<inp, now, chk, client, ret>>

Tick ==
    /\ now' = IF now = 0 THEN 12 ELSE 0
    /\ UNCHANGED <<inp, last, calls, chk, client, ret>>

Reconfigure ==
    /\ client' = UpdateConfig(client,
                    IF client.apiKey = <<"k">> THEN <<"3", "k">> ELSE <<"k">>,
                    IF client.secretKey = <<"s">> THEN <<"t">> ELSE <<"s">>, << >>).c
    /\ UNCHANGED <<inp, last, calls, now, chk, ret>>

NextPure ==
    \/ \E req \in {inp.req, inp.other} : \E order \in IterationOrders(req.Params) :
            SignAgain(req, order)
    \/ Tick
    \/ Reconfigure

SpecPure == InitPure /\ [][NextPure]_vars

\* SpecCls: one call of CheckErrorResponse.
InitCls ==
    /\ inp \in [statusCode : HTTPStatuses, responseCode : ResponseCodes]
    /\ last = NoCall
    /\ calls = << >>
    /\ now = 0
    /\ chk = NoCall
    /\ client = Nil
    /\ ret = NoCall

Check ==
    /\ chk' = [made |-> TRUE, statusCode |-> inp.statusCode,
               responseCode |-> inp.responseCode,
               err |-> CheckErrorResponse(inp.statusCode, inp.responseCode)]
    /\ UNCHANGED <<inp, last, calls, now, client, ret>>

NextCls == Check

SpecCls == InitCls /\ [][NextCls]_vars

\* Spec: a client built by New, and the endpoint operations called on it.
Init ==
    /\ inp \in [currency : Currencies, id : GeneratedIDs, net : NetOutcomes]
    /\ last = NoCall
    /\ calls = << >>
    /\ now \in {12, 1700000000}
    /\ chk = NoCall
    /\ client \in Clients
    /\ ret = NoCall

CallGetAccountSummary ==
    /\ ret' = GetAccountSummary(client, inp.currency, inp.id, now, <<keyCurrency>>, inp.net)
    /\ UNCHANGED <<inp, last, calls, now, chk, client>>

Next == CallGetAccountSummary

Spec == Init /\ [][Next]_vars

\* SpecOps: one call of any endpoint operation on a client, with what the id
\* generator, the clock and the network do during the call.
InstrumentNames == {<< >>, <<"B", "_", "U">>}
OrderIDs == {<< >>, <<"4", "2">>}
PageSizes == {-1, 0, 200, 201}
Pages == {0, 1}
Times == {ZeroTime, UnixMilliTime(0), UnixMilliTime(12)}
Depths == {-1, 0, 5}

\* float64 values of a CreateOrderRequest: 0, 1.5 and 20.
Float0 == FloatVal(FALSE, << >>, 0)
Float1p5 == FloatVal(FALSE, <<1, 5>>, 1)
Float20 == FloatVal(FALSE, <<2>>, 2)

ZeroCreateOrderRequest ==
    [InstrumentName |-> << >>, Side |-> << >>, Type |-> << >>, Price |-> Float0,
     Quantity |-> Float0, Notional |-> Float0, ClientOID |-> << >>,
     TimeInForce |-> << >>, ExecInst |-> << >>, TriggerPrice |-> Float0]

CreateOrderRequests ==
    {ZeroCreateOrderRequest,
     [ZeroCreateOrderRequest EXCEPT !.InstrumentName = <<"B", "_", "U">>,
                                    !.Side = <<"B", "U", "Y">>,
                                    !.Type = <<"L", "I", "M", "I", "T">>,
                                    !.Price = Float1p5],
     [ZeroCreateOrderRequest EXCEPT !.Quantity = Float20, !.Notional = Float1p5,
                                    !.ClientOID = <<"o">>],
     [ZeroCreateOrderRequest EXCEPT !.TimeInForce = <<"F", "O", "K">>,
                                    !.ExecInst = <<"P", "O">>,
                                    !.TriggerPrice = Float20],
     [ZeroCreateOrderRequest EXCEPT !.Side = <<"S", "E", "L", "L">>]}

PagedRequests == [InstrumentName : InstrumentNames, PageSize : PageSizes, Page : Pages]
RangedRequests ==
    [InstrumentName : {<< >>}, PageSize : PageSizes, Page : Pages,
     Start : Times, End : {ZeroTime, UnixMilliTime(1700000000)}]
    \cup [InstrumentName : InstrumentNames, PageSize : {0}, Page : {0},
          Start : Times, End : {ZeroTime}]

\* The calls a caller can make.
OpCalls ==
    {[op |-> "GetAccountSummary", currency |-> c] : c \in Currencies}
    \cup {[op |-> "GetOrderDetail", orderID |-> o] : o \in OrderIDs}
    \cup {[op |-> "CancelOrder", instrumentName |-> i, orderID |-> o] :
            i \in InstrumentNames, o \in OrderIDs}
    \cup {[op |-> "CancelAllOrders", instrumentName |-> i] : i \in InstrumentNames}
    \cup {[op |-> "GetOpenOrders", req |-> r] : r \in PagedRequests}
    \cup {[op |-> "GetOrderHistory", req |-> r] : r \in RangedRequests}
    \cup {[op |-> "GetTrades", req |-> r] : r \in RangedRequests}
    \cup {[op |-> "CreateOrder", req |-> r] : r \in CreateOrderRequests}
    \cup {[op |-> "GetInstruments"]}
    \cup {[op |-> "GetTickers", instrument |-> i] : i \in InstrumentNames}
    \cup {[op |-> "GetBook", instrument |-> i, depth |-> d] :
            i \in InstrumentNames, d \in Depths}

\* The clients the operations are called on: the default client, one for the
\* sandbox, and clients whose signature generator is substituted.
OpClients ==
    {New(<<"k">>, <<"s">>, opts).c :
        opts \in {<< >>, <<WithUATEnvironment>>, <<WithSignatureGenerator("failing")>>,
                  <<WithSignatureGenerator("fixed")>>}}

OpNetOutcomes ==
    {TransportFails, ReadFails, BadJSON(418),
     Response(200, <<"0">>, "result"),
     Response(200, FormatInt(10003), "result"),
     Response(418, FormatInt(10003), "result"),
     Response(429, FormatInt(10006), "result"),
     Response(400, FormatInt(10007), "result"),
     Response(400, FormatInt(99999), "result"),
     Response(400, <<"a", "b", "c">>, "result"),
     Response(500, <<"0">>, "result")}

InitOps ==
    /\ inp \in [call : OpCalls, id : GeneratedIDs, net : OpNetOutcomes]
    /\ last = NoCall
    /\ calls = << >>
    /\ now = 12
    /\ chk = NoCall
    /\ client \in OpClients
    /\ ret = NoCall

\* The operation's result becomes ret; nothing else changes.
Returns(r) ==
    /\ ret' = r
    /\ UNCHANGED <<inp, last, calls, now, chk, client>>

OpGetAccountSummary ==
    /\ inp.call.op = "GetAccountSummary"
    /\ Returns(GetAccountSummary(client, inp.call.currency, inp.id, now, <<keyCurrency>>,
                                 inp.net))

OpGetOrderDetail ==
    /\ inp.call.op = "GetOrderDetail"
    /\ Returns(GetOrderDetail(client, inp.call.orderID, inp.id, now, <<keyOrderID>>, inp.net))

OpCancelOrder ==
    /\ inp.call.op = "CancelOrder"
    /\ \E order \in {<<keyInstrumentName, keyOrderID>>, <<keyOrderID, keyInstrumentName>>} :
        Returns(CancelOrder(client, inp.call.instrumentName, inp.call.orderID, inp.id, now,
                            order, inp.net))

OpCancelAllOrders ==
    /\ inp.call.op = "CancelAllOrders"
    /\ Returns(CancelAllOrders(client, inp.call.instrumentName, inp.id, now,
                               <<keyInstrumentName>>, inp.net))

OpGetOpenOrders ==
    /\ inp.call.op = "GetOpenOrders"
    /\ \E order \in IterationOrders(GetOpenOrdersParams(inp.call.req)) :
        Returns(GetOpenOrders(client, inp.call.req, inp.id, now, order, inp.net))

OpGetOrderHistory ==
    /\ inp.call.op = "GetOrderHistory"
    /\ \E order \in IterationOrders(GetOrderHistoryParams(inp.call.req)) :
        Returns(GetOrderHistory(client, inp.call.req, inp.id, now, order, inp.net))

OpGetTrades ==
    /\ inp.call.op = "GetTrades"
    /\ \E order \in IterationOrders(GetTradesParams(inp.call.req)) :
        Returns(GetTrades(client, inp.call.req, inp.id, now, order, inp.net))

OpCreateOrder ==
    /\ inp.call.op = "CreateOrder"
    /\ \E order \in IterationOrders(CreateOrderParams(inp.call.req)) :
        Returns(CreateOrder(client, inp.call.req, inp.id, now, order, inp.net))

OpGetInstruments ==
    /\ inp.call.op = "GetInstruments"
    /\ Returns(GetInstruments(client, inp.id, now, inp.net))

OpGetTickers ==
    /\ inp.call.op = "GetTickers"
    /\ Returns(GetTickers(client, inp.call.instrument, inp.net))

OpGetBook ==
    /\ inp.call.op = "GetBook"
    /\ Returns(GetBook(client, inp.call.instrument, inp.call.depth, inp.net))

NextOps ==
    \/ OpGetAccountSummary
    \/ OpGetOrderDetail
    \/ OpCancelOrder
    \/ OpCancelAllOrders
    \/ OpGetOpenOrders
    \/ OpGetOrderHistory
    \/ OpGetTrades
    \/ OpCreateOrder
    \/ OpGetInstruments
    \/ OpGetTickers
    \/ OpGetBook

SpecOps == InitOps /\ [][NextOps]_vars

\* SpecNew: a call of New, or a call of UpdateConfig on a client built earlier.
NewOptions ==
    ClientOptions \cup {WithIDGenerator("mock"), WithClock("fake"), WithClock("nil")}

NewOptionSeqs == UNION {[1..n -> NewOptions] : n \in 0..MaxOpts}

Keys == {<< >>, <<"k">>, <<"3", "k">>}
Secrets == {<< >>, <<"s">>, <<"t">>}

InitNew ==
    /\ inp \in [apiKey : Keys, secretKey : Secrets, opts : NewOptionSeqs]
    /\ last = NoCall
    /\ calls = << >>
    /\ now = 0
    /\ chk = NoCall
    /\ client \in {Nil} \cup Clients
    /\ ret = NoCall

CallNew ==
    /\ client = Nil
    /\ ~ret.made
    /\ LET r == New(inp.apiKey, inp.secretKey, inp.opts)
       IN  /\ ret' = [made |-> TRUE, op |-> "New", before |-> Nil, c |-> r.c, err |-> r.err]
           /\ client' = r.c
    /\ UNCHANGED <<inp, last, calls, now, chk>>

CallUpdateConfig ==
    /\ client # Nil
    /\ ~ret.made
    /\ LET r == UpdateConfig(client, inp.apiKey, inp.secretKey, inp.opts)
       IN  /\ ret' = [made |-> TRUE, op |-> "UpdateConfig", before |-> client, c |-> r.c,
                      err |-> r.err]
           /\ client' = r.c
    /\ UNCHANGED <<inp, last, calls, now, chk>>

\* The same call on the earlier client with the same keys, base URL, HTTP client,
\* clock and id generator; last holds that client before and after, and the error.
CallEarlierUpdateConfig ==
    /\ client # Nil
    /\ ~ret.made
    /\ ~last.made
    /\ \A i \in DOMAIN inp.opts : inp.opts[i].opt \in {"WithUATEnvironment", "WithHTTPClient"}
    /\ LET c == [apiKey |-> client.apiKey, secretKey |-> client.secretKey,
                 baseURL |-> client.requester.BaseURL, client |-> client.requester.Client,
                 clock |-> client.clock, idGenerator |-> client.idGenerator]
           r == EarlierUpdateConfig(c, inp.apiKey, inp.secretKey, inp.opts)
       IN  last' = [made |-> TRUE, before |-> c, c |-> r.c, err |-> r.err]
    /\ UNCHANGED <<inp, calls, now, chk, client, ret>>

NextNew ==
    \/ CallNew
    \/ CallUpdateConfig
    \/ CallEarlierUpdateConfig

SpecNew == InitNew /\ [][NextNew]_vars

\* SpecIDs: a sequence of operations on a client built by New with its default id
\* generator; calls holds, for each request dispatched, the operation and the id
\* its body carries.
Int63Values == {0, 7, 1234}

InitIDs ==
    /\ inp \in [req : CreateOrderRequests,
                net : {TransportFails, Response(200, <<"0">>, "result"),
                       Response(418, FormatInt(10003), "result")}]
    /\ last = NoCall
    /\ calls = << >>
    /\ now = 12
    /\ chk = NoCall
    /\ client = New(<<"k">>, <<"s">>, << >>).c
    /\ ret = NoCall

Dispatched(r) ==
    /\ ret' = r
    /\ calls' = IF r.sent = Nil THEN calls
                ELSE Append(calls, [op |-> r.op, id |-> r.sent.body.ID])
    /\ UNCHANGED <<inp, last, now, chk, client>>

RequestCreateOrder ==
    /\ Len(calls) < MaxCalls
    /\ \E int63 \in Int63Values :
        \E order \in IterationOrders(CreateOrderParams(inp.req)) :
            Dispatched(CreateOrder(client, inp.req, ClientGenerate(client, int63), now, order,
                                   inp.net))

RequestGetInstruments ==
    /\ Len(calls) < MaxCalls
    /\ \E int63 \in Int63Values :
            Dispatched(GetInstruments(client, ClientGenerate(client, int63), now, inp.net))

NextIDs ==
    \/ RequestCreateOrder
    \/ RequestGetInstruments

SpecIDs == InitIDs /\ [][NextIDs]_vars

(***************************************************************************)
(* Properties                                                              *)
(***************************************************************************)

\* The canonical parameter string, stated without the code's sort: the least key
\* first, each key followed by the default string form of its value.
RECURSIVE CanonicalOver(_, _)
CanonicalOver(params, keys) ==
    IF keys = {} THEN << >>
    ELSE LET k == CHOOSE k \in keys : \A j \in keys \ {k} : StrLess(k, j)
         IN  k \o FormatValue(params[k]) \o CanonicalOver(params, keys \ {k})

CanonicalParamString(params) == CanonicalOver(params, DOMAIN params)

ExpectedPayload(req) ==
    req.Method \o FormatInt(req.ID) \o req.APIKey \o CanonicalParamString(req.Params)
        \o FormatInt(req.Timestamp)

\* The example of the specification, with the timestamp in seconds.
ExampleRequest ==
    [Method |-> methodGetAccountSummary, ID |-> 1234, APIKey |-> <<"k">>,
     SecretKey |-> <<"s">>, Timestamp |-> 1700000000,
     Params |-> keyCurrency :> StringVal(<<"C", "R", "O">>)]

ExamplePayload == <<"p", "r", "i", "v", "a", "t", "e", "/", "g", "e", "t", "-", "a", "c", "c", "o", "u", "n", "t", "-", "s", "u", "m", "m", "a", "r", "y", "1", "2", "3", "4", "k", "c", "u", "r", "r", "e", "n", "c", "y", "C", "R", "O", "1", "7", "0", "0", "0", "0", "0", "0", "0", "0">>

\* C1: GenerateSignature signs method ++ decimal(id) ++ apiKey ++ canonical param
\* string ++ decimal(timestamp), in that order and without separators, and returns
\* the lowercase hex HMAC-SHA256 of it keyed by secretKey; the specification's
\* example signs the literal payload.
C1_SignsExactPayload ==
    last.made =>
        /\ last.out.err = Nil
        /\ last.out.payload = ExpectedPayload(last.req)
        /\ last.out.sig.enc = "hex-lowercase"
        /\ last.out.sig.bytes.mac = "HMAC-SHA256"
        /\ last.out.sig.bytes.key = last.req.SecretKey
        /\ last.out.sig.bytes.msg = ExpectedPayload(last.req)
        /\ (last.req = ExampleRequest => last.out.sig.bytes.msg = ExamplePayload)

C1_Witness ==
    /\ last.made
    /\ last.req = ExampleRequest
    /\ last.out.sig.bytes.msg = ExamplePayload

ThreeKeyMap == <<"a">> :> IntVal(2) @@ <<"B">> :> IntVal(-1) @@ <<"_">> :> BoolVal(TRUE)

\* C2: the canonical parameter string concatenates, over the keys in ascending
\* byte-wise order, each key and its value's default string form, is empty for a map
\* without keys, and so the signature is the same under every iteration order.
C2_CanonicalParamString ==
    last.made =>
        /\ last.out.paramStr = CanonicalParamString(last.req.Params)
        /\ (last.req.Params = EmptyMap => last.out.paramStr = << >>)
        /\ (last.req.Params = ThreeKeyMap =>
                last.out.paramStr = <<"B", "-", "1", "_", "t", "r", "u", "e", "a", "2">>)
        /\ \A o \in IterationOrders(last.req.Params) :
                GenerateSignature(last.req, o).sig = last.out.sig

C2_Witness ==
    /\ last.made
    /\ last.req.Params = ThreeKeyMap
    /\ last.order = << <<"a">>, <<"_">>, <<"B">> >>
    /\ last.out.paramStr = <<"B", "-", "1", "_", "t", "r", "u", "e", "a", "2">>

\* C3: a request whose params lack key x, and the same request with x bound to a
\* zero value, sign different payloads and get different signatures.
C3_AbsentDiffersFromZero ==
    (last.made /\ keyX \notin DOMAIN last.req.Params) =>
        \A z \in ZeroValues :
            LET withX == [last.req EXCEPT !.Params = (keyX :> z) @@ last.req.Params]
            IN  \A o \in IterationOrders(withX.Params) :
                    /\ GenerateSignature(withX, o).payload # last.out.payload
                    /\ GenerateSignature(withX, o).sig # last.out.sig

C3_Witness ==
    /\ last.made
    /\ last.req.Params = keyCurrency :> StringVal(<<"C", "R", "O">>)
    /\ GenerateSignature([last.req EXCEPT !.Params = (keyX :> IntVal(0)) @@ last.req.Params],
                         <<keyX, keyCurrency>>).sig # last.out.sig

\* C4: two calls of GenerateSignature with identical request fields return the
\* identical result, whatever the iteration order, the clock's reading, the
\* client's configuration and the calls made before.
C4_Deterministic ==
    \A i, j \in DOMAIN calls :
        calls[i].req = calls[j].req => calls[i].out = calls[j].out

C4_Witness ==
    /\ Len(calls) >= 2
    /\ calls[1].req = calls[2].req
    /\ calls[1].order # calls[2].order
    /\ calls[1].at # calls[2].at
    /\ calls[1].cfg # calls[2].cfg
    /\ calls[1].out.sig = calls[2].out.sig

\* C5: CheckErrorResponse returns nil for every HTTP status below 400, whatever the
\* response code.
C5_BelowFourHundredIsNil ==
    (chk.made /\ chk.statusCode < 400) => chk.err = Nil

C5_Witness ==
    /\ chk.made
    /\ chk.statusCode = 399
    /\ chk.responseCode = FormatInt(10003)
    /\ chk.err = Nil

\* C6: response code 0 never produces an error, at any HTTP status.
C6_CodeZeroIsNil ==
    (chk.made /\ chk.responseCode \in ZeroCodes) => chk.err = Nil

C6_Witness ==
    /\ chk.made
    /\ chk.statusCode = 500
    /\ chk.responseCode = <<"0">>
    /\ chk.err = Nil

AllSentinels == TaxonomySentinels \cup {ErrUnexpectedError}

\* C7: at a status of 400 or above, a response code that is no int64 (the empty code
\* included) yields a ResponseError with that status, Code 0 and an underlying error
\* "invalid response code: <raw>" that is no sentinel.
C7_MalformedCode ==
    (chk.made /\ chk.statusCode >= 400 /\ chk.responseCode \in MalformedCodes) =>
        /\ chk.err.type = "ResponseError"
        /\ chk.err.HTTPStatusCode = chk.statusCode
        /\ chk.err.Code = 0
        /\ chk.err.Err.s = msgInvalidResponseCode \o chk.responseCode
        /\ (chk.responseCode = <<"a", "b", "c">> =>
                chk.err.Err.s = <<"i", "n", "v", "a", "l", "i", "d", " ", "r", "e", "s", "p", "o", "n", "s", "e", " ", "c", "o", "d", "e", ":", " ", "a", "b", "c">>)
        /\ \A e \in AllSentinels : ~Is(chk.err, e) /\ ~GoEqual(chk.err.Err, e)

C7_Witness ==
    /\ chk.made
    /\ chk.statusCode = 418
    /\ chk.responseCode = << >>
    /\ chk.err.type = "ResponseError"
    /\ chk.err.Err.s = msgInvalidResponseCode

\* The taxonomy as documented: README "Response Codes", and 100001 of the
\* specification's table.
DocumentedTaxonomy ==
    {<<10001, ErrSystemError>>,
     <<10002, ErrUnauthorized>>,
     <<10003, ErrIllegalIP>>,
     <<10004, ErrBadRequest>>,
     <<10005, ErrUserTierInvalid>>,
     <<10006, ErrTooManyRequests>>,
     <<10007, ErrInvalidNonce>>,
     <<10008, ErrMethodNotFound>>,
     <<10009, ErrInvalidDateRange>>,
     <<20001, ErrDuplicateRecord>>,
     <<20002, ErrNegativeBalance>>,
     <<30003, ErrSymbolNotFound>>,
     <<30004, ErrSideNotSupported>>,
     <<30005, ErrOrderTypeNotSupported>>,
     <<30006, ErrMinPriceViolated>>,
     <<30007, ErrMaxPriceViolated>>,
     <<30008, ErrMinQuantityViolated>>,
     <<30009, ErrMaxQuantityViolated>>,
     <<30010, ErrMissingArgument>>,
     <<30013, ErrInvalidPricePrecision>>,
     <<30014, ErrInvalidQuantityPrecision>>,
     <<30016, ErrMinNotionalViolated>>,
     <<30017, ErrMaxNotionalViolated>>,
     <<30023, ErrMinAmountViolated>>,
     <<30024, ErrMaxAmountViolated>>,
     <<30025, ErrAmountPrecisionOverflow>>,
     <<40001, ErrMGInvalidAccountStatus>>,
     <<40002, ErrMGTransferActiveLoan>>,
     <<40003, ErrMGInvalidLoanCurrency>>,
     <<40004, ErrMGInvalidRepayAmount>>,
     <<40005, ErrMGNoActiveLoan>>,
     <<40006, ErrMGBlockedBorrow>>,
     <<40007, ErrMGBlockedNewOrder>>,
     <<50001, ErrMGCreditLineNotMaintained>>,
     <<100001, ErrSystemError>>}

\* C8: for every code of the taxonomy table and every status of 400 or above, the
\* ResponseError carries the code, the status and the sentinel documented for it.
C8_TaxonomyComplete ==
    /\ {row[1] : row \in DocumentedTaxonomy} = TaxonomyCodes
    /\ (chk.made /\ chk.statusCode >= 400) =>
          \A row \in DocumentedTaxonomy :
              chk.responseCode = FormatInt(row[1]) =>
                  chk.err = [type |-> "ResponseError", Code |-> row[1],
                             HTTPStatusCode |-> chk.statusCode, Err |-> row[2]]

C8_Witness ==
    /\ chk.made
    /\ chk.statusCode = 418
    /\ chk.responseCode = FormatInt(30007)
    /\ chk.err.Err = ErrMaxPriceViolated
    /\ chk.err.Code = 30007

\* C9: every non-zero integer code outside the taxonomy, at a status of 400 or
\* above, yields a ResponseError with that code, that status and the catch-all
\* sentinel; no integer code yields nil or anything but a ResponseError.
C9_UnknownCodeIsUnexpected ==
    (chk.made /\ chk.statusCode >= 400) =>
        /\ \A n \in UnknownCodes :
              chk.responseCode = FormatInt(n) =>
                  chk.err = [type |-> "ResponseError", Code |-> n,
                             HTTPStatusCode |-> chk.statusCode, Err |-> ErrUnexpectedError]
        /\ \A n \in UnknownCodes \cup TaxonomyCodes :
              chk.responseCode = FormatInt(n) =>
                  chk.err # Nil /\ chk.err.type = "ResponseError" /\ chk.err.Code = n

C9_Witness ==
    /\ chk.made
    /\ chk.statusCode = 500
    /\ chk.responseCode = FormatInt(-1)
    /\ chk.err.Err = ErrUnexpectedError
    /\ chk.err.Code = -1

\* The sentinel expected for a code: the documented one, or the catch-all.
ExpectedSentinel(n) ==
    IF \E row \in DocumentedTaxonomy : row[1] = n
    THEN (CHOOSE row \in DocumentedTaxonomy : row[1] = n)[2]
    ELSE ErrUnexpectedError

\* C10: the error an endpoint operation returns for a classified response, after
\* the operation has wrapped it, matches a ResponseError built by hand from the same
\* (code, status, sentinel), matches the sentinel alone, and matches no other
\* sentinel.
C10_DualMatching ==
    (ret.made /\ ret.status >= 400) =>
        \A n \in TaxonomyCodes \cup UnknownCodes :
            ret.code = FormatInt(n) =>
                LET byHand == [type |-> "ResponseError", Code |-> n,
                               HTTPStatusCode |-> ret.status, Err |-> ExpectedSentinel(n)]
                IN  /\ ret.err.type = "*wrapError"
                    /\ Is(ret.err, byHand)
                    /\ AsResponseError(ret.err) = byHand
                    /\ Is(ret.err, ExpectedSentinel(n))
                    /\ \A e \in AllSentinels \ {ExpectedSentinel(n)} : ~Is(ret.err, e)
                    /\ \A m \in (TaxonomyCodes \cup UnknownCodes) \ {n} :
                          ~Is(ret.err, [byHand EXCEPT !.Code = m])

C10_Witness ==
    /\ ret.made
    /\ ret.op = "GetAccountSummary"
    /\ ret.status = 418
    /\ ret.code = FormatInt(10003)
    /\ ret.err.type = "*wrapError"
    /\ Is(ret.err, ErrIllegalIP)
    /\ Is(ret.err, [type |-> "ResponseError", Code |-> 10003, HTTPStatusCode |-> 418,
                    Err |-> ErrIllegalIP])

(***************************************************************************)
(* Properties of the endpoint operations                                   *)
(***************************************************************************)

PrivateOps ==
    {"GetAccountSummary", "GetOrderDetail", "CancelOrder", "CancelAllOrders",
     "GetOpenOrders", "GetOrderHistory", "GetTrades", "CreateOrder"}

PagedOps == {"GetOpenOrders", "GetOrderHistory", "GetTrades"}

\* The parameters of a call that its operation must reject, by the name the error
\* gives them; empty when the call is acceptable.
InvalidParameters(call) ==
    CASE call.op = "GetOrderDetail" ->
            IF call.orderID = << >> THEN {"orderID"} ELSE {}
      [] call.op = "CancelOrder" ->
            (IF call.instrumentName = << >> THEN {"instrumentName"} ELSE {})
                \cup (IF call.orderID = << >> THEN {"orderID"} ELSE {})
      [] call.op = "CancelAllOrders" ->
            IF call.instrumentName = << >> THEN {"instrumentName"} ELSE {}
      [] call.op \in PagedOps ->
            IF call.req.PageSize < 0 \/ call.req.PageSize > 200 THEN {"req.PageSize"} ELSE {}
      [] OTHER -> {}

Count(trace, call) == Len(CallsOf(trace, call))

\* C11: an operation that rejects its input (GetOrderDetail with an empty orderID,
\* CancelOrder with an empty instrumentName or orderID, CancelAllOrders with an
\* empty instrumentName, GetOpenOrders, GetOrderHistory and GetTrades with a
\* PageSize out of range) returns an InvalidParameterError naming the parameter
\* and has invoked neither the id generator, the clock, the signature generator
\* nor the HTTP client.
C11_RejectsBeforeAnyStep ==
    (ret.made /\ InvalidParameters(inp.call) # {}) =>
        /\ ret.err.type = "InvalidParameterError"
        /\ ret.err.Parameter \in InvalidParameters(inp.call)
        /\ ret.trace = << >>
        /\ ret.signed = Nil
        /\ ret.sent = Nil

C11_Witness ==
    /\ ret.made
    /\ inp.call = [op |-> "GetOrderDetail", orderID |-> << >>]
    /\ ret.err = InvalidParameterError("orderID", "cannot be empty")
    /\ ret.trace = << >>

\* C12: GetOpenOrders, GetOrderHistory and GetTrades accept a request exactly when
\* 0 <= PageSize <= 200: below 0 the error is InvalidParameterError{req.PageSize,
\* "cannot be less than 0"}, above 200 it is InvalidParameterError{req.PageSize,
\* "cannot be greater than 200"}, and from 0 to 200, both included, the request is
\* signed and, when signing succeeds, dispatched.
C12_PageSizeRange ==
    (ret.made /\ inp.call.op \in PagedOps) =>
        LET pageSize == inp.call.req.PageSize
        IN  /\ pageSize < 0 =>
                ret.err = InvalidParameterError("req.PageSize", "cannot be less than 0")
            /\ pageSize > 200 =>
                ret.err = InvalidParameterError("req.PageSize", "cannot be greater than 200")
            /\ (0 <= pageSize /\ pageSize <= 200) =>
                /\ ret.err.type # "InvalidParameterError"
                /\ Count(ret.trace, "GenerateSignature") = 1
                /\ client.signatureGenerator # "failing" => Count(ret.trace, "Client.Do") = 1

C12_Witness ==
    /\ ret.made
    /\ inp.call.op = "GetOpenOrders"
    /\ inp.call.req.PageSize = 200
    /\ Count(ret.trace, "GenerateSignature") = 1
    /\ Count(ret.trace, "Client.Do") = 1
    /\ ret.err = Nil

\* The optional fields of a call's request: the key each has in the params map and
\* whether the caller left it at the zero value of its type.
OptionalFields(call) ==
    CASE call.op = "GetAccountSummary" ->
            {[key |-> keyCurrency, zero |-> call.currency = << >>]}
      [] call.op = "GetOpenOrders" ->
            {[key |-> keyInstrumentName, zero |-> call.req.InstrumentName = << >>],
             [key |-> keyPageSize, zero |-> call.req.PageSize = 0]}
      [] call.op \in {"GetOrderHistory", "GetTrades"} ->
            {[key |-> keyInstrumentName, zero |-> call.req.InstrumentName = << >>],
             [key |-> keyPageSize, zero |-> call.req.PageSize = 0],
             [key |-> keyStartTS, zero |-> call.req.Start = ZeroTime],
             [key |-> keyEndTS, zero |-> call.req.End = ZeroTime]}
      [] call.op = "CreateOrder" ->
            {[key |-> keyInstrumentName, zero |-> call.req.InstrumentName = << >>],
             [key |-> keySide, zero |-> call.req.Side = << >>],
             [key |-> keyType, zero |-> call.req.Type = << >>],
             [key |-> keyPrice, zero |-> call.req.Price = Float0],
             [key |-> keyQuantity, zero |-> call.req.Quantity = Float0],
             [key |-> keyNotional, zero |-> call.req.Notional = Float0],
             [key |-> keyClientOID, zero |-> call.req.ClientOID = << >>],
             [key |-> keyTimeInForce, zero |-> call.req.TimeInForce = << >>],
             [key |-> keyExecInst, zero |-> call.req.ExecInst = << >>],
             [key |-> keyTriggerPrice, zero |-> call.req.TriggerPrice = Float0]}
      [] OTHER -> {}

\* C13 as stated: in every params map an operation builds, signs and sends, an
\* optional field left zero or empty is absent, and no optional field is present
\* in the map with a zero value.
C13_NoZeroValueInMap ==
    (ret.made /\ ret.params # Nil) =>
        \A f \in OptionalFields(inp.call) :
            /\ f.zero => f.key \notin DOMAIN ret.params
            /\ f.key \in DOMAIN ret.params => ~IsZeroValue(ret.params[f.key])

\* C13, amended: in every params map an operation builds, signs and sends, an
\* optional field is absent exactly when the caller left it at the zero value of
\* its type ("", 0, the zero time.Time); the map signed is the map sent. A field
\* that is present can still hold 0: start_ts or end_ts of a Start or End at the
\* Unix epoch, which is not the zero time.Time.
C13_ZeroFieldsOmitted ==
    (ret.made /\ ret.params # Nil) =>
        /\ \A f \in OptionalFields(inp.call) : f.zero <=> f.key \notin DOMAIN ret.params
        /\ ret.signed.Params = ret.params
        /\ ret.sent # Nil => ret.sent.body.Params = ret.params
        /\ \A k \in DOMAIN ret.params :
                IsZeroValue(ret.params[k]) => k \in {keyStartTS, keyEndTS, keyPage}

C13_Witness ==
    /\ ret.made
    /\ inp.call.op = "GetOrderHistory"
    /\ inp.call.req.InstrumentName = << >>
    /\ inp.call.req.Start = UnixMilliTime(0)
    /\ inp.call.req.End = ZeroTime
    /\ ret.sent # Nil
    /\ DOMAIN ret.sent.body.Params = {keyStartTS, keyPage, keyPageSize}
    /\ ret.sent.body.Params[keyStartTS] = IntVal(0)

\* C14: when the signature generator returns an error during a private operation,
\* no HTTP request is dispatched, no result is returned, and the error returned
\* wraps the generator's error, which errors.Is still finds in it.
C14_SigningFailureStops ==
    (ret.made /\ inp.call.op \in PrivateOps /\ InvalidParameters(inp.call) = {}
        /\ client.signatureGenerator = "failing") =>
        /\ Count(ret.trace, "GenerateSignature") = 1
        /\ Count(ret.trace, "Client.Do") = 0
        /\ ret.sent = Nil
        /\ ret.result = Nil
        /\ ret.err.type = "*wrapError"
        /\ Is(ret.err, testErr)

C14_Witness ==
    /\ ret.made
    /\ inp.call.op = "CancelOrder"
    /\ InvalidParameters(inp.call) = {}
    /\ client.signatureGenerator = "failing"
    /\ ret.err = WrapError("failed to cancel signature", testErr)
    /\ ret.sent = Nil

\* C15: in every private operation that accepts its input the id generator is
\* called exactly once and the clock is read exactly once, and the request
\* dispatched carries what was signed: the body's id, method, nonce, params and
\* api_key are the ID, Method, Timestamp, Params and APIKey given to the signature
\* generator, and its sig is the string the generator returned.
C15_DispatchedIsSigned ==
    (ret.made /\ inp.call.op \in PrivateOps /\ InvalidParameters(inp.call) = {}) =>
        /\ CallsOf(ret.trace, "idGenerator.Generate") = <<Invoked("idGenerator.Generate", inp.id)>>
        /\ CallsOf(ret.trace, "clock.Now") = <<Invoked("clock.Now", now)>>
        /\ CallsOf(ret.trace, "GenerateSignature") = <<Invoked("GenerateSignature", ret.signed)>>
        /\ ret.signed.ID = inp.id
        /\ ret.signed.Timestamp = now
        /\ ret.sent # Nil =>
            /\ ret.sent.body.ID = ret.signed.ID
            /\ ret.sent.body.Method = ret.signed.Method
            /\ ret.sent.body.Nonce = ret.signed.Timestamp
            /\ ret.sent.body.Params = ret.signed.Params
            /\ ret.sent.body.APIKey = ret.signed.APIKey
            /\ ret.sent.body.Signature = ClientGenerateSignature(client, ret.signed,
                    CHOOSE o \in IterationOrders(ret.signed.Params) : TRUE).sig

C15_Witness ==
    /\ ret.made
    /\ inp.call.op = "CreateOrder"
    /\ client.signatureGenerator = "auth.Generator"
    /\ Cardinality(DOMAIN ret.signed.Params) = 4
    /\ ret.sent # Nil
    /\ ret.sent.body.ID = inp.id
    /\ ret.sent.body.Nonce = now
    /\ ret.sent.body.Signature = ret.sig
    /\ ret.sig.enc = "hex-lowercase"

\* C16: an operation that returns a non-nil error returns an empty result with it,
\* on every failure path: validation, signing, transport, decoding and an error
\* response classified after the result was built.
C16_NoResultWithError ==
    (ret.made /\ ret.err # Nil) => ret.result = Nil

C16_Witness ==
    /\ ret.made
    /\ inp.call = [op |-> "GetTickers", instrument |-> <<"B", "_", "U">>]
    /\ inp.net = Response(418, FormatInt(10003), "result")
    /\ Is(ret.err, ErrIllegalIP)
    /\ ret.result = Nil

\* What the network did is a failure of the transport or of the decoding, or an
\* error response: a status of 400 or above with a code other than 0.
FailedOutcome(net) ==
    \/ net.kind \in {"transport error", "read error", "bad json"}
    \/ /\ net.kind = "response"
       /\ net.status >= 400
       /\ net.code \notin ZeroCodes

\* C19: no operation retries: one invocation hands at most one request to the HTTP
\* client, whatever the outcome, and a failed transport, a failed decoding and an
\* error response (the rate limit 10006 and the invalid nonce 10007 among them)
\* are each returned to the caller as an error.
C19_NoRetry ==
    ret.made =>
        /\ Count(ret.trace, "Client.Do") <= 1
        /\ (Count(ret.trace, "Client.Do") = 1 /\ FailedOutcome(inp.net)) => ret.err # Nil

C19_Witness ==
    /\ ret.made
    /\ inp.call.op = "GetOpenOrders"
    /\ inp.net = Response(429, FormatInt(10006), "result")
    /\ Count(ret.trace, "Client.Do") = 1
    /\ Is(ret.err, ErrTooManyRequests)

(***************************************************************************)
(* Properties of New and UpdateConfig                                      *)
(***************************************************************************)

\* C17: New and UpdateConfig check apiKey before secretKey: an empty apiKey gives
\* InvalidParameterError{apiKey, "cannot be empty"}, also when secretKey is empty
\* too, otherwise an empty secretKey gives InvalidParameterError{secretKey, "cannot
\* be empty"}; in both cases no option is applied, UpdateConfig leaves every field
\* of the client as it was and New returns no client.
C17_KeysCheckedInOrder ==
    (ret.made /\ (inp.apiKey = << >> \/ inp.secretKey = << >>)) =>
        /\ ret.err = IF inp.apiKey = << >>
                     THEN InvalidParameterError("apiKey", "cannot be empty")
                     ELSE InvalidParameterError("secretKey", "cannot be empty")
        /\ ret.op = "UpdateConfig" => client = ret.before
        /\ ret.op = "New" => (ret.c = Nil /\ client = Nil)

C17_Witness ==
    /\ ret.made
    /\ ret.op = "UpdateConfig"
    /\ inp.apiKey = << >>
    /\ inp.secretKey = << >>
    /\ inp.opts = <<WithUATEnvironment, WithHTTPClient("custom")>>
    /\ ret.before.requester = [Client |-> "http.DefaultClient", BaseURL |-> productionBaseURL]
    /\ ret.err = InvalidParameterError("apiKey", "cannot be empty")
    /\ client = ret.before

\* The argument of the last option of one of the given kinds in opts, as the
\* option sets it, or the default when there is none.
RECURSIVE LastSet(_, _, _)
LastSet(opts, kinds, default) ==
    IF opts = << >> THEN default
    ELSE LET o == opts[Len(opts)]
         IN  IF o.opt \in kinds
             THEN CASE o.opt = "WithUATEnvironment" -> uatSandboxBaseURL
                    [] o.opt = "WithProductionEnvironment" -> productionBaseURL
                    [] OTHER -> o.arg
             ELSE LastSet(SubSeq(opts, 1, Len(opts) - 1), kinds, default)

\* C18: a client built by New with no environment option targets the production
\* base URL and uses the default HTTP client; WithUATEnvironment makes it target
\* the sandbox URL, WithProductionEnvironment the production URL, WithHTTPClient
\* replaces only the HTTP client; New stores the apiKey and secretKey given.
C18_NewDefaultsAndOptions ==
    (ret.made /\ ret.op = "New" /\ ret.err = Nil) =>
        /\ client.apiKey = inp.apiKey
        /\ client.secretKey = inp.secretKey
        /\ client.requester.BaseURL =
                LastSet(inp.opts, {"WithUATEnvironment", "WithProductionEnvironment"},
                        "https://api.crypto.com/v2/")
        /\ client.requester.Client = LastSet(inp.opts, {"WithHTTPClient"}, "http.DefaultClient")
        /\ client.clock = LastSet(inp.opts, {"WithClock"}, "clockwork.RealClock")
        /\ client.idGenerator = LastSet(inp.opts, {"WithIDGenerator"}, "id.Generator")
        /\ client.signatureGenerator =
                LastSet(inp.opts, {"WithSignatureGenerator"}, "auth.Generator")

C18_Witness ==
    /\ ret.made
    /\ ret.op = "New"
    /\ inp.opts = <<WithHTTPClient("custom")>>
    /\ client = [apiKey |-> <<"3", "k">>, secretKey |-> <<"t">>,
                 clock |-> "clockwork.RealClock", idGenerator |-> "id.Generator",
                 signatureGenerator |-> "auth.Generator",
                 requester |-> [Client |-> "custom",
                                BaseURL |-> "https://api.crypto.com/v2/"]]

(***************************************************************************)
(* Properties of the request ids                                           *)
(***************************************************************************)

\* C20: the request id is unique per request: over any sequence of operations on a
\* client that uses the default id generator, no two requests carry the same id.
C20_IDsUnique ==
    client.idGenerator = "id.Generator" =>
        \A i, j \in DOMAIN calls : i # j => calls[i].id # calls[j].id

(***************************************************************************)
(* SpecReq: the dispatcher called directly                                 *)
(***************************************************************************)

\* The bodies handed to the dispatcher: the zero api.Request, a signed request
\* with params, and one whose params hold a value JSON cannot encode.
RequestBodies ==
    {[ID |-> 0, Method |-> << >>, Nonce |-> 0, Params |-> EmptyMap,
      Signature |-> << >>, APIKey |-> << >>],
     [ID |-> 7, Method |-> methodGetAccountSummary, Nonce |-> 12,
      Params |-> keyCurrency :> StringVal(<<"C", "R", "O">>),
      Signature |-> <<"f">>, APIKey |-> <<"k">>],
     [ID |-> 7, Method |-> methodCreateOrder, Nonce |-> 12,
      Params |-> keyPrice :> NaN,
      Signature |-> <<"f">>, APIKey |-> <<"k">>]}

Requesters ==
    {[Client |-> "http.DefaultClient", BaseURL |-> productionBaseURL],
     [Client |-> "custom", BaseURL |-> uatSandboxBaseURL]}

InitReq ==
    /\ inp \in [r : Requesters, ctx : {NilContext, Background}, body : RequestBodies,
                method : {methodGetAccountSummary, methodGetInstruments},
                net : NetOutcomes]
    /\ last = NoCall
    /\ calls = << >>
    /\ now = 0
    /\ chk = NoCall
    /\ client = Nil
    /\ ret = NoCall

CallPost ==
    /\ ret' = [made |-> TRUE, op |-> "Post",
               out |-> Post(inp.r, inp.ctx, inp.body, inp.method, inp.net)]
    /\ UNCHANGED <<inp, last, calls, now, chk, client>>

CallGet ==
    /\ ret' = [made |-> TRUE, op |-> "Get",
               out |-> Get(inp.r, inp.ctx, inp.body, inp.method, inp.net)]
    /\ UNCHANGED <<inp, last, calls, now, chk, client>>

NextReq ==
    \/ CallPost
    \/ CallGet

SpecReq == InitReq /\ [][NextReq]_vars

\* Whether the request is created: the body encodes and the context is not nil.
RequestCreated == Marshal(inp.body).err = Nil /\ inp.ctx # NilContext

\* C22: Post and Get return status 0 with every non-nil error (the request could
\* not be made, the transport failed, the body could not be read or decoded, the
\* last also when the HTTP status was 400 or above), and return the HTTP status
\* unchanged with a nil error whenever the body of the response decodes, also
\* when that status is 400 or above: the dispatcher classifies no status.
C22_StatusZeroWithError ==
    ret.made =>
        /\ ret.out.err # Nil => ret.out.status = 0
        /\ ~RequestCreated => ret.out.err # Nil /\ ret.out.sent = Nil
        /\ (RequestCreated /\ inp.net.kind # "response") => ret.out.err # Nil
        /\ (RequestCreated /\ inp.net.kind = "response") =>
                /\ ret.out.err = Nil
                /\ ret.out.status = inp.net.status

\* C22 witness: a response with status 400 or above whose body does not decode
\* has come back as status 0 with an error.
C22_Witness ==
    /\ ret.made
    /\ RequestCreated
    /\ inp.net.kind = "bad json"
    /\ inp.net.status >= 400
    /\ ret.out.status = 0
    /\ ret.out.err # Nil

\* C23: CancelOrder checks instrumentName before orderID: with an empty
\* instrumentName the InvalidParameterError names instrumentName, whatever the
\* orderID; it names orderID only when instrumentName is not empty.
C23_InstrumentNameFirst ==
    (ret.made /\ inp.call.op = "CancelOrder") =>
        /\ inp.call.instrumentName = << >> =>
                ret.err = InvalidParameterError("instrumentName", "cannot be empty")
        /\ (inp.call.instrumentName # << >> /\ inp.call.orderID = << >>) =>
                ret.err = InvalidParameterError("orderID", "cannot be empty")
        /\ (inp.call.instrumentName # << >> /\ inp.call.orderID # << >>) =>
                ~(ret.err # Nil /\ ret.err.type = "InvalidParameterError")

\* C23 witness: both were empty and the error names instrumentName.
C23_Witness ==
    /\ ret.made
    /\ inp.call = [op |-> "CancelOrder", instrumentName |-> << >>, orderID |-> << >>]
    /\ ret.err = InvalidParameterError("instrumentName", "cannot be empty")

C25_OpenOrdersParams ==
    (ret.made /\ inp.call.op = "GetOpenOrders" /\ InvalidParameters(inp.call) = {}) =>
        LET req == inp.call.req
            p == ret.signed.Params
        IN  /\ keyPage \in DOMAIN p
            /\ p[keyPage] = IntVal(req.Page)
            /\ keyPageSize \in DOMAIN p <=> req.PageSize # 0
            /\ keyPageSize \in DOMAIN p => p[keyPageSize] = IntVal(req.PageSize)
            /\ keyInstrumentName \in DOMAIN p <=> req.InstrumentName # << >>
            /\ keyInstrumentName \in DOMAIN p =>
                    p[keyInstrumentName] = StringVal(req.InstrumentName)
            /\ DOMAIN p \subseteq {keyPage, keyPageSize, keyInstrumentName}
            /\ ret.sent # Nil => ret.sent.body.Params = p

\* C25 witness: the all-zero request was sent with the map {page: 0}.
C25_Witness ==
    /\ ret.made
    /\ inp.call = [op |-> "GetOpenOrders",
                   req |-> [InstrumentName |-> << >>, PageSize |-> 0, Page |-> 0]]
    /\ ret.sent # Nil
    /\ ret.sent.body.Params = keyPage :> IntVal(0)

(***************************************************************************)
(* Properties of UpdateConfig                                              *)
(***************************************************************************)

\* The options that fail: the ones given a nil (or empty) argument.
Fails(o) == "arg" \in DOMAIN o /\ o.arg \in {"nil", ""}

\* The index of the first option of opts that fails, 0 when none does.
FirstFailing(opts) ==
    IF \E i \in DOMAIN opts : Fails(opts[i])
    THEN CHOOSE i \in DOMAIN opts : Fails(opts[i]) /\ \A j \in 1..(i - 1) : ~Fails(opts[j])
    ELSE 0

\* The parameter the error of a failing option names.
ParameterOf(o) ==
    CASE o.opt = "WithHTTPClient" -> "httpClient"
      [] o.opt = "WithSignatureGenerator" -> "signatureGenerator"
      [] o.opt = "WithIDGenerator" -> "idGenerator"
      [] o.opt = "WithClock" -> "clock"
      [] o.opt = "WithBaseURL" -> "url"

\* The client c after the options opts have each taken effect on before.
OptionsApplied(c, before, opts) ==
    /\ c.requester.BaseURL =
            LastSet(opts, {"WithUATEnvironment", "WithProductionEnvironment", "WithBaseURL"},
                    before.requester.BaseURL)
    /\ c.requester.Client = LastSet(opts, {"WithHTTPClient"}, before.requester.Client)
    /\ c.clock = LastSet(opts, {"WithClock"}, before.clock)
    /\ c.idGenerator = LastSet(opts, {"WithIDGenerator"}, before.idGenerator)
    /\ c.signatureGenerator =
            LastSet(opts, {"WithSignatureGenerator"}, before.signatureGenerator)

\* C26: UpdateConfig is not atomic when an option fails: with keys that are not
\* empty and a first failing option at index i, it returns that option's error,
\* the client holds the new apiKey and secretKey and the effects of options
\* 1..i-1, and no option after i has been applied.
C26_PartialUpdate ==
    (/\ ret.made
     /\ ret.op = "UpdateConfig"
     /\ inp.apiKey # << >>
     /\ inp.secretKey # << >>
     /\ FirstFailing(inp.opts) # 0) =>
        LET i == FirstFailing(inp.opts)
        IN  /\ ret.err = InvalidParameterError(ParameterOf(inp.opts[i]), "cannot be empty")
            /\ client.apiKey = inp.apiKey
            /\ client.secretKey = inp.secretKey
            /\ OptionsApplied(client, ret.before, SubSeq(inp.opts, 1, i - 1))

\* C26 witness: the second option failed on a production client with other keys;
\* the keys and the first option's sandbox URL are in place.
C26_Witness ==
    /\ ret.made
    /\ ret.op = "UpdateConfig"
    /\ inp.opts = <<WithUATEnvironment, WithHTTPClient("nil")>>
    /\ inp.apiKey = <<"3", "k">>
    /\ inp.secretKey = <<"t">>
    /\ ret.before.apiKey = <<"k">>
    /\ ret.before.requester.BaseURL = productionBaseURL
    /\ ret.err = InvalidParameterError("httpClient", "cannot be empty")
    /\ client.apiKey = <<"3", "k">>
    /\ client.secretKey = <<"t">>
    /\ client.requester.BaseURL = uatSandboxBaseURL

\* C27: a successful UpdateConfig changes the apiKey, the secretKey and what its
\* options set, nothing else: with no environment option the base URL stays (a
\* sandbox client stays on the sandbox), and so do the HTTP client, the clock and
\* the generators without an option for them. The earlier UpdateConfig, called
\* with the same arguments on a client with the same fields, leaves the base URL
\* at production unless WithUATEnvironment is among the options.
C27_KeepsWhatIsNotSet ==
    /\ (ret.made /\ ret.op = "UpdateConfig" /\ ret.err = Nil) =>
            /\ client.apiKey = inp.apiKey
            /\ client.secretKey = inp.secretKey
            /\ OptionsApplied(client, ret.before, inp.opts)
    /\ (last.made /\ last.err = Nil) =>
            /\ last.c.baseURL = LastSet(inp.opts, {"WithUATEnvironment"}, productionBaseURL)
            /\ last.c.client = LastSet(inp.opts, {"WithHTTPClient"}, last.before.client)
            /\ last.c.clock = last.before.clock
            /\ last.c.idGenerator = last.before.idGenerator

\* C27 witness: a sandbox client with a custom HTTP client was given new keys and
\* no option: it is still on the sandbox with that HTTP client, while the earlier
\* UpdateConfig has put the same client on production.
C27_Witness ==
    /\ ret.made
    /\ ret.op = "UpdateConfig"
    /\ ret.err = Nil
    /\ inp.opts = << >>
    /\ inp.apiKey = <<"3", "k">>
    /\ ret.before.apiKey = <<"k">>
    /\ ret.before.requester = [Client |-> "custom", BaseURL |-> uatSandboxBaseURL]
    /\ client.requester = [Client |-> "custom", BaseURL |-> uatSandboxBaseURL]
    /\ client.apiKey = <<"3", "k">>
    /\ last.made
    /\ last.err = Nil
    /\ last.before.baseURL = uatSandboxBaseURL
    /\ last.c.baseURL = productionBaseURL
    /\ last.c.client = "custom"

(***************************************************************************)
(* SpecCfg: a client built by New, then any sequence of UpdateConfig calls *)
(***************************************************************************)

CfgOptions ==
    {WithUATEnvironment,
     WithHTTPClient("nil"), WithHTTPClient("custom"),
     WithSignatureGenerator("nil"),
     WithIDGenerator("nil"), WithIDGenerator("mock"),
     WithClock("nil"), WithClock("fake"),
     WithBaseURL(""), WithBaseURL("http://localhost/")}

\* No option, one option, or two.
CfgOptionSeqs ==
    {<< >>} \cup {<<o>> : o \in CfgOptions} \cup {<<o, p>> : o, p \in CfgOptions}

InitCfg ==
    /\ inp = NoCall
    /\ last = NoCall
    /\ calls = << >>
    /\ now = 0
    /\ chk = NoCall
    /\ client = Nil
    /\ ret = NoCall

CfgNew ==
    /\ client = Nil
    /\ \E k \in Keys, s \in Secrets, opts \in CfgOptionSeqs :
        LET r == New(k, s, opts)
        IN  /\ client' = r.c
            /\ ret' = [made |-> TRUE, op |-> "New", err |-> r.err]
    /\ UNCHANGED <<inp, last, calls, now, chk>>

CfgUpdateConfig ==
    /\ client # Nil
    /\ \E k \in Keys, s \in Secrets, opts \in CfgOptionSeqs :
        LET r == UpdateConfig(client, k, s, opts)
        IN  /\ client' = r.c
            /\ ret' = [made |-> TRUE, op |-> "UpdateConfig", err |-> r.err]
    /\ UNCHANGED <<inp, last, calls, now, chk>>

NextCfg ==
    \/ CfgNew
    \/ CfgUpdateConfig

SpecCfg == InitCfg /\ [][NextCfg]_vars

\* C28: a client returned by New stays well-formed over every sequence of
\* UpdateConfig calls, failed ones included: its apiKey and secretKey are not
\* empty, its base URL is not empty, and its HTTP client, clock, id generator and
\* signature generator are not nil.
C28_ClientWellFormed ==
    client # Nil =>
        /\ client.apiKey # << >>
        /\ client.secretKey # << >>
        /\ client.requester.BaseURL # ""
        /\ client.requester.Client # "nil"
        /\ client.clock # "nil"
        /\ client.idGenerator # "nil"
        /\ client.signatureGenerator # "nil"

\* C28 witness: an UpdateConfig has just failed on an empty base URL, on a client
\* whose keys, HTTP client and clock calls of UpdateConfig had changed.
C28_Witness ==
    /\ ret.made
    /\ ret.op = "UpdateConfig"
    /\ ret.err = InvalidParameterError("url", "cannot be empty")
    /\ client.apiKey = <<"3", "k">>
    /\ client.secretKey = <<"t">>
    /\ client.requester = [Client |-> "custom", BaseURL |-> uatSandboxBaseURL]
    /\ client.clock = "fake"
    /\ client.idGenerator = "mock"

(***************************************************************************)
(* SpecPair: two signature requests signed side by side                    *)
(***************************************************************************)

PairRequests ==
    [Method : {methodGetAccountSummary}, ID : {1, 12}, APIKey : {<<"k">>, <<"2", "k">>},
     SecretKey : {<<"s">>, <<"t">>}, Timestamp : {12},
     Params : {EmptyMap, <<"a">> :> StringVal(<<"b", "1">>),
               <<"a", "b">> :> StringVal(<<"1">>)}]

InitPair ==
    /\ inp \in [req : PairRequests, other : PairRequests]
    /\ last = NoCall
    /\ calls = << >>
    /\ now = 0
    /\ chk = NoCall
    /\ client = Nil
    /\ ret = NoCall

SignPair ==
    /\ \E o1 \in IterationOrders(inp.req.Params), o2 \in IterationOrders(inp.other.Params) :
        last' = [made |-> TRUE, a |-> GenerateSignature(inp.req, o1),
                 b |-> GenerateSignature(inp.other, o2)]
    /\ UNCHANGED <<inp, calls, now, chk, client, ret>>

NextPair == SignPair

SpecPair == InitPair /\ [][NextPair]_vars

\* C30: the payload signed is not injective in the request: two requests get the
\* same signature exactly when they have the same secretKey and the same
\* concatenation method ++ id ++ apiKey ++ params ++ timestamp, whether or not the
\* requests are the same; so params {a: "b1"} and {ab: "1"}, and (id 1, apiKey
\* "2k") and (id 12, apiKey "k"), are signed alike.
C30_PayloadNotInjective ==
    last.made =>
        /\ last.a.sig = last.b.sig <=>
                /\ inp.req.SecretKey = inp.other.SecretKey
                /\ ExpectedPayload(inp.req) = ExpectedPayload(inp.other)
        /\ (/\ inp.other = [inp.req EXCEPT !.Params = <<"a", "b">> :> StringVal(<<"1">>)]
            /\ inp.req.Params = <<"a">> :> StringVal(<<"b", "1">>)) =>
                last.a.sig = last.b.sig
        /\ (/\ inp.other = [inp.req EXCEPT !.ID = 12, !.APIKey = <<"k">>]
            /\ inp.req.ID = 1
            /\ inp.req.APIKey = <<"2", "k">>) =>
                last.a.sig = last.b.sig

\* C30 witness: two requests that differ in id, apiKey and params have been given
\* the same payload and the same signature.
C30_Witness ==
    /\ last.made
    /\ inp.req.ID = 1
    /\ inp.req.APIKey = <<"2", "k">>
    /\ inp.req.Params = <<"a">> :> StringVal(<<"b", "1">>)
    /\ inp.other.ID = 12
    /\ inp.other.APIKey = <<"k">>
    /\ inp.other.Params = <<"a", "b">> :> StringVal(<<"1">>)
    /\ last.a.payload = last.b.payload
    /\ last.a.sig = last.b.sig

(***************************************************************************)
(* The private operations step by step, for calls that run concurrently    *)
(***************************************************************************)

\* One call of a private operation as the sequence of its accesses to the client
\* and its collaborators. l holds the locals of the call (id, timestamp, params,
\* the SignatureRequest, the signature, the body) and what it returned; pc is the
\* access it makes next. No step assigns to a field of the client.
IdleLocal ==
    [pc |-> "idle", id |-> 0, timestamp |-> 0, params |-> EmptyMap, sigReq |-> Nil,
     sig |-> << >>, body |-> Nil, net |-> Nil, sent |-> Nil, result |-> Nil, err |-> Nil,
     atStart |-> Nil, atBody |-> Nil]

StepMethod(call) ==
    CASE call.op = "GetAccountSummary" -> methodGetAccountSummary
      [] call.op = "GetOpenOrders" -> methodGetOpenOrders
      [] call.op = "CreateOrder" -> methodCreateOrder

\* The check an operation makes on its input before anything else.
StepValidate(call) ==
    CASE call.op = "GetOpenOrders" ->
            IF call.req.PageSize < 0
            THEN InvalidParameterError("req.PageSize", "cannot be less than 0")
            ELSE IF call.req.PageSize > 200
            THEN InvalidParameterError("req.PageSize", "cannot be greater than 200")
            ELSE Nil
      [] OTHER -> Nil

StepParams(call) ==
    CASE call.op = "GetAccountSummary" ->
            SetIf(call.currency # << >>, keyCurrency, StringVal(call.currency))
      [] call.op = "GetOpenOrders" -> GetOpenOrdersParams(call.req)
      [] call.op = "CreateOrder" -> CreateOrderParams(call.req)

\* id = c.idGenerator.Generate(), after the check of the input.
StepGenerate(c, l, call, int63) ==
    IF StepValidate(call) # Nil
    THEN [l EXCEPT !.pc = "done", !.err = StepValidate(call)]
    ELSE [l EXCEPT !.pc = "now", !.id = ClientGenerate(c, int63)]

\* timestamp = c.clock.Now().UnixMilli(), then the params map, a local.
StepNow(c, l, call, t) ==
    [l EXCEPT !.pc = "apiKey", !.timestamp = t, !.params = StepParams(call)]

\* The SignatureRequest literal: c.apiKey is read, then c.secretKey.
StepReadAPIKey(c, l, call) ==
    [l EXCEPT !.pc = "secretKey",
              !.sigReq = [APIKey |-> c.apiKey, SecretKey |-> << >>, ID |-> l.id,
                          Method |-> StepMethod(call), Timestamp |-> l.timestamp,
                          Params |-> l.params]]

StepReadSecretKey(c, l) ==
    [l EXCEPT !.pc = "sign", !.sigReq = [l.sigReq EXCEPT !.SecretKey = c.secretKey]]

\* c.signatureGenerator.GenerateSignature(...): the call returns when it fails.
StepSign(c, l, order) ==
    LET signed == ClientGenerateSignature(c, l.sigReq, order)
    IN  IF signed.err # Nil
        THEN [l EXCEPT !.pc = "done",
                       !.err = WrapError("failed to create signature", signed.err)]
        ELSE [l EXCEPT !.pc = "post", !.sig = signed.sig]

\* A plausible slip: the nonce of the body read from the clock again.
StepBody_NonceFromClock(c, l) ==
    [l EXCEPT !.pc = "dispatch",
              !.body = [ID |-> l.id, Method |-> l.sigReq.Method, Nonce |-> now,
                        Params |-> l.params, Signature |-> l.sig, APIKey |-> c.apiKey]]

\* A plausible slip: the body given the api key that was signed, read once.
StepBody_SignedKey(c, l) ==
    [l EXCEPT !.pc = "dispatch",
              !.body = [ID |-> l.id, Method |-> l.sigReq.Method, Nonce |-> l.timestamp,
                        Params |-> l.params, Signature |-> l.sig,
                        APIKey |-> l.sigReq.APIKey]]

\* The api.Request literal: c.apiKey is read a second time.
StepBody(c, l) ==
    [l EXCEPT !.pc = "dispatch",
              !.body = [ID |-> l.id, Method |-> l.sigReq.Method, Nonce |-> l.timestamp,
                        Params |-> l.params, Signature |-> l.sig, APIKey |-> c.apiKey]]

\* c.requester.Post(...), CheckErrorResponse and the return.
StepPost(c, l, net) ==
    LET posted == Post(c.requester, Background, l.body, l.sigReq.Method, net)
        checked == CheckErrorResponse(posted.status, posted.response.Code)
    IN  IF posted.err # Nil
        THEN [l EXCEPT !.pc = "done", !.net = net, !.sent = posted.sent,
                       !.err = WrapError("failed to execute post request", posted.err)]
        ELSE IF checked # Nil
        THEN [l EXCEPT !.pc = "done", !.net = net, !.sent = posted.sent,
                       !.err = WrapResponseError(checked)]
        ELSE [l EXCEPT !.pc = "done", !.net = net, !.sent = posted.sent,
                       !.result = posted.response.Result]

\* The outcomes of a read of a string field that races with the write of it: a
\* string is a pointer and a length, written one after the other, so between the
\* two the field holds the bytes of the new value cut to the old length, or the
\* bytes of the old value followed by what lies behind them ("?") up to the new
\* length.
TornValues(old, new) ==
    {IF Len(old) <= Len(new)
     THEN SubSeq(new, 1, Len(old))
     ELSE new \o [i \in 1..(Len(old) - Len(new)) |-> "?"],
     IF Len(new) <= Len(old)
     THEN SubSeq(old, 1, Len(new))
     ELSE old \o [i \in 1..(Len(new) - Len(old)) |-> "?"]}

(***************************************************************************)
(* SpecConc: operations running concurrently on one client                 *)
(***************************************************************************)

ConcProcs == {"p", "q"}

ConcCalls ==
    {[op |-> "GetAccountSummary", currency |-> <<"C", "R", "O">>],
     [op |-> "GetOpenOrders",
      req |-> [InstrumentName |-> <<"B", "_", "U">>, PageSize |-> 0, Page |-> 1]],
     [op |-> "GetOpenOrders",
      req |-> [InstrumentName |-> << >>, PageSize |-> 201, Page |-> 0]],
     [op |-> "CreateOrder", req |-> ZeroCreateOrderRequest]}

ConcNets == {TransportFails, Response(200, <<"0">>, "result"),
             Response(400, FormatInt(10003), "result")}

ClockReadings == {12, 13}

\* chk keeps the client as it was built; ret holds the locals of each call and
\* calls the requests handed to the HTTP client, in the order of dispatch.
InitConc ==
    /\ inp \in [call : [ConcProcs -> ConcCalls], ints : {{7, 1234}}, nets : {ConcNets}]
    /\ last = NoCall
    /\ calls = << >>
    /\ now = 12
    /\ client \in {New(<<"k">>, <<"s">>, opts).c :
                        opts \in {<< >>, <<WithUATEnvironment>>,
                                  <<WithSignatureGenerator("failing")>>}}
    /\ chk = client
    /\ ret = [p \in ConcProcs |-> IdleLocal]

ProcGenerate(p) ==
    /\ ret[p].pc = "idle"
    /\ \E int63 \in inp.ints :
        ret' = [ret EXCEPT ![p] =
                    [StepGenerate(client, @, inp.call[p], int63)
                        EXCEPT !.atStart = [apiKey |-> client.apiKey,
                                            secretKey |-> client.secretKey]]]
    /\ UNCHANGED <<inp, last, calls, now, chk, client>>

ProcNow(p) ==
    /\ ret[p].pc = "now"
    /\ ret' = [ret EXCEPT ![p] = StepNow(client, @, inp.call[p], now)]
    /\ UNCHANGED <<inp, last, calls, now, chk, client>>

ProcReadAPIKey(p) ==
    /\ ret[p].pc = "apiKey"
    /\ ret' = [ret EXCEPT ![p] = StepReadAPIKey(client, @, inp.call[p])]
    /\ UNCHANGED <<inp, last, calls, now, chk, client>>

ProcReadSecretKey(p) ==
    /\ ret[p].pc = "secretKey"
    /\ ret' = [ret EXCEPT ![p] = StepReadSecretKey(client, @)]
    /\ UNCHANGED <<inp, last, calls, now, chk, client>>

ProcSign(p) ==
    /\ ret[p].pc = "sign"
    /\ \E order \in IterationOrders(ret[p].params) :
        ret' = [ret EXCEPT ![p] = StepSign(client, @, order)]
    /\ UNCHANGED <<inp, last, calls, now, chk, client>>

ProcBody(p) ==
    /\ ret[p].pc = "post"
    /\ ret' = [ret EXCEPT ![p] =
                    [StepBody(client, @)
                        EXCEPT !.atBody = [apiKey |-> client.apiKey,
                                           secretKey |-> client.secretKey]]]
    /\ UNCHANGED <<inp, last, calls, now, chk, client>>

ProcPost(p) ==
    /\ ret[p].pc = "dispatch"
    /\ \E net \in inp.nets :
        /\ ret' = [ret EXCEPT ![p] = StepPost(client, @, net)]
        /\ calls' = Append(calls, [proc |-> p, signed |-> ret[p].sigReq,
                                   sent |-> ret'[p].sent])
    /\ UNCHANGED <<inp, last, now, chk, client>>

ClockAdvances ==
    /\ \E t \in ClockReadings : t > now /\ now' = t
    /\ UNCHANGED <<inp, last, calls, chk, client, ret>>

NextConc ==
    \/ \E p \in ConcProcs : ProcGenerate(p)
    \/ \E p \in ConcProcs : ProcNow(p)
    \/ \E p \in ConcProcs : ProcReadAPIKey(p)
    \/ \E p \in ConcProcs : ProcReadSecretKey(p)
    \/ \E p \in ConcProcs : ProcSign(p)
    \/ \E p \in ConcProcs : ProcBody(p)
    \/ \E p \in ConcProcs : ProcPost(p)
    \/ ClockAdvances

SpecConc == InitConc /\ [][NextConc]_vars

\* The call of l run alone on the client c, as one step, with the id, the
\* timestamp and the network outcome l had.
Sequential(c, call, l) ==
    LET net == IF l.net = Nil THEN TransportFails ELSE l.net
        order == CHOOSE o \in IterationOrders(StepParams(call)) : TRUE
    IN  CASE call.op = "GetAccountSummary" ->
                GetAccountSummary(c, call.currency, l.id, l.timestamp, order, net)
          [] call.op = "GetOpenOrders" ->
                GetOpenOrders(c, call.req, l.id, l.timestamp, order, net)
          [] call.op = "CreateOrder" ->
                CreateOrder(c, call.req, l.id, l.timestamp, order, net)

\* C21: operations that run concurrently on one client, with no UpdateConfig
\* among them, write no field of the client, and whatever the interleaving each
\* signs and dispatches the request, and returns the result, that the same call
\* run alone on that client would with the same id and timestamp.
C21_ConcurrentAsSequential ==
    /\ client = chk
    /\ \A p \in ConcProcs :
        LET l == ret[p]
            r == Sequential(chk, inp.call[p], l)
        IN  /\ l.pc # "done" => l.sent = Nil
            /\ l.pc \in {"post", "dispatch"} =>
                    (l.sigReq = r.signed /\ l.sig = r.sig)
            /\ l.pc = "dispatch" => l.body = r.sent.body
            /\ l.pc = "done" =>
                    /\ l.sent = r.sent
                    /\ l.err = r.err
                    /\ l.result = r.result
    /\ \A i \in DOMAIN calls :
            /\ calls[i].sent = ret[calls[i].proc].sent
            /\ calls[i].signed = Sequential(chk, inp.call[calls[i].proc],
                                            ret[calls[i].proc]).signed
    /\ Len(calls) = Cardinality({p \in ConcProcs : ret[p].pc = "done" /\ ret[p].body # Nil})

\* C21 witness: two calls have both dispatched, the second to start being the
\* first to dispatch, with different ids and timestamps.
C21_Witness ==
    /\ Len(calls) = 2
    /\ calls[1].proc = "q"
    /\ calls[2].proc = "p"
    /\ ret["p"].timestamp < ret["q"].timestamp
    /\ ret["p"].id # ret["q"].id
    /\ ret["p"].sent # Nil
    /\ ret["q"].sent # Nil
    /\ ret["p"].sent.body.Nonce = ret["p"].timestamp
    /\ ret["q"].sent.body.ID = ret["q"].id

(***************************************************************************)
(* SpecRace: UpdateConfig running concurrently with private operations     *)
(***************************************************************************)

\* UpdateConfig(apiKey, secretKey) with no option, as the sequence of its writes:
\* last holds its position and the error it returned. Nothing orders its writes
\* and the reads of an operation, so a read can fall before, between or after
\* the writes, and within the write of one string.
RaceCalls ==
    {[op |-> "GetAccountSummary", currency |-> <<"C", "R", "O">>],
     [op |-> "CreateOrder", req |-> ZeroCreateOrderRequest]}

InitRace ==
    /\ inp \in [call : [ConcProcs -> RaceCalls], ints : {{7}},
                nets : {{Response(200, <<"0">>, "result")}},
                update : [apiKey : {<< >>, <<"3", "k">>}, secretKey : {<<"t">>}]]
    /\ last = [pc |-> "idle", err |-> Nil]
    /\ calls = << >>
    /\ now = 12
    /\ client = New(<<"k">>, <<"s">>, << >>).c
    /\ chk = client
    /\ ret = [p \in ConcProcs |-> IdleLocal]

\* The switch on the two keys.
UpdBegin ==
    /\ last.pc = "idle"
    /\ last' = IF inp.update.apiKey = << >>
               THEN [pc |-> "done",
                     err |-> InvalidParameterError("apiKey", "cannot be empty")]
               ELSE IF inp.update.secretKey = << >>
               THEN [pc |-> "done",
                     err |-> InvalidParameterError("secretKey", "cannot be empty")]
               ELSE [pc |-> "apiKey", err |-> Nil]
    /\ UNCHANGED <<inp, calls, now, chk, client, ret>>

\* c.apiKey = apiKey: the write, or the first half of it.
UpdStoreAPIKey ==
    /\ \/ /\ last.pc = "apiKey"
          /\ \E v \in TornValues(client.apiKey, inp.update.apiKey) :
                client' = [client EXCEPT !.apiKey = v]
          /\ last' = [last EXCEPT !.pc = "apiKey half"]
       \/ /\ last.pc \in {"apiKey", "apiKey half"}
          /\ client' = [client EXCEPT !.apiKey = inp.update.apiKey]
          /\ last' = [last EXCEPT !.pc = "secretKey"]
    /\ UNCHANGED <<inp, calls, now, chk, ret>>

\* c.secretKey = secretKey, then the loop over no option and the return.
UpdStoreSecretKey ==
    /\ \/ /\ last.pc = "secretKey"
          /\ \E v \in TornValues(client.secretKey, inp.update.secretKey) :
                client' = [client EXCEPT !.secretKey = v]
          /\ last' = [last EXCEPT !.pc = "secretKey half"]
       \/ /\ last.pc \in {"secretKey", "secretKey half"}
          /\ client' = [client EXCEPT !.secretKey = inp.update.secretKey]
          /\ last' = [last EXCEPT !.pc = "done"]
    /\ UNCHANGED <<inp, calls, now, chk, ret>>

NextRace ==
    \/ \E p \in ConcProcs : ProcGenerate(p)
    \/ \E p \in ConcProcs : ProcNow(p)
    \/ \E p \in ConcProcs : ProcReadAPIKey(p)
    \/ \E p \in ConcProcs : ProcReadSecretKey(p)
    \/ \E p \in ConcProcs : ProcSign(p)
    \/ \E p \in ConcProcs : ProcBody(p)
    \/ \E p \in ConcProcs : ProcPost(p)
    \/ UpdBegin
    \/ UpdStoreAPIKey
    \/ UpdStoreSecretKey

SpecRace == InitRace /\ [][NextRace]_vars

\* The configurations the client is given: the one it was built with and the
\* one UpdateConfig installs.
Configurations ==
    {[apiKey |-> chk.apiKey, secretKey |-> chk.secretKey],
     [apiKey |-> inp.update.apiKey, secretKey |-> inp.update.secretKey]}

\* A dispatched request made under one configuration: signed with its apiKey and
\* secretKey and carrying its apiKey in the body.
Consistent(d) ==
    \E cfg \in Configurations :
        /\ d.signed.APIKey = cfg.apiKey
        /\ d.signed.SecretKey = cfg.secretKey
        /\ d.sent.body.APIKey = cfg.apiKey

\* C29: with UpdateConfig(k2, s2) running beside an operation, the operation
\* reads c.apiKey and c.secretKey for the signature and c.apiKey again for the
\* body, unsynchronised: the signature is over the pair read for signing, the
\* body carries the apiKey the client holds when the body is built, and the
\* request is that of one configuration whenever the client held the same keys
\* at the start of the operation and at the building of its body. (The witness
\* is the request of no configuration.)
C29_KeysReadSeparately ==
    /\ \A p \in ConcProcs :
        LET l == ret[p]
        IN  l.pc \in {"dispatch", "done"} =>
                /\ l.body.APIKey = l.atBody.apiKey
                /\ l.body.Signature =
                        GenerateSignature(l.sigReq,
                            CHOOSE o \in IterationOrders(l.params) : TRUE).sig
                /\ l.atStart = l.atBody =>
                        /\ l.sigReq.APIKey = l.atStart.apiKey
                        /\ l.sigReq.SecretKey = l.atStart.secretKey
                        /\ l.body.APIKey = l.atStart.apiKey
    /\ \A i \in DOMAIN calls :
            /\ calls[i].sent.body = ret[calls[i].proc].body
            /\ calls[i].signed = ret[calls[i].proc].sigReq
            /\ (ret[calls[i].proc].atStart = ret[calls[i].proc].atBody
                    /\ ret[calls[i].proc].atStart \in Configurations) =>
                        Consistent(calls[i])
    /\ last.pc = "done" =>
            client = UpdateConfig(chk, inp.update.apiKey, inp.update.secretKey, << >>).c

\* C29 witness: two operations begun under (k1, s1) have dispatched requests of
\* no configuration: one signed for (k1, s1) with the api_key k2 in its body, the
\* other signed with the mixed pair (k2, s1).
C29_Witness ==
    /\ Len(calls) = 2
    /\ \A p \in ConcProcs : ret[p].atStart = [apiKey |-> <<"k">>, secretKey |-> <<"s">>]
    /\ \E i, j \in DOMAIN calls :
        /\ calls[i].signed.APIKey = <<"k">>
        /\ calls[i].signed.SecretKey = <<"s">>
        /\ calls[i].sent.body.APIKey = <<"3", "k">>
        /\ calls[j].signed.APIKey = <<"3", "k">>
        /\ calls[j].signed.SecretKey = <<"s">>
        /\ calls[j].sent.body.APIKey = <<"3", "k">>
        /\ ~Consistent(calls[i])
        /\ ~Consistent(calls[j])

============================================================================
